---- MODULE Spec2Model ----
(***************************************************************************)
(* Polimetrix: retry wrapper, provider factory, fetch scheduler, history   *)
(* reconstruction, application score/history state and persistent store.   *)
(* Each component has its own next-state relation over the shared state.   *)
(***************************************************************************)
EXTENDS Integers, Sequences, FiniteSets, TLC

VARIABLES
    \* withRetry (aiProvider.ts / geminiService.ts)
    rtPc,          \* position of the running withRetry call
    rtRetries,     \* parameter `retries` of the current (recursive) call
    rtBaseDelay,   \* parameter `baseDelay` of the current (recursive) call
    rtCalls,       \* number of times operation() has been invoked
    rtDelays,      \* sequence of delays passed to wait(), in order
    rtOutcomes,    \* outcome of each invocation of operation(), in order
    rtResult,      \* value the outermost withRetry promise resolved to
    \* getProvider (aiProvider.ts)
    cachedProvider,    \* module-level cached instance, NoProvider for null
    cachedConfigHash,  \* module-level hash of the configuration it was built from
    gpConstructed,     \* number of provider instances constructed so far
    gpCalls,           \* every getProvider call so far: its argument and its result
    \* Database (database.ts)
    db,            \* this.db: the in-memory mirror
    idb,           \* TRUE iff this.idb holds an open IndexedDB connection
    idbStores,     \* content of the IndexedDB object stores (primary tier)
    legacyBlob,    \* localStorage['polimetric_db'] (legacy tier), NoBlob if absent
    dbPhase,       \* progress of initIndexedDB: "opening", "loading", "ready"
    loadIdx,       \* loadFromIDB: index in LoadOrder of the idbGet awaited
    loadPending,   \* loadFromIDB: result of the idbGet awaited
    dbOps,         \* number of public store operations performed
    lastOp,        \* the last public store operation: name, argument, mirror before
    lastSave,      \* what the last save() did
    dbError,       \* error that propagated out of the last public operation
    tiersFaulty,   \* TRUE iff the durable tiers may fail in this run
    \* HourlyFetchScheduler (hourlyFetchScheduler.ts)
    schedulerInterval, \* handle of the timer start() armed, NoTimer for null
    armedTimers,       \* the recurring timers currently armed (setInterval)
    fetchIntervalMin,  \* this.fetchIntervalMs, in minutes
    isRunning,         \* this.isRunning
    schedPoliticians,  \* this.politicians
    fetchCount,        \* this.fetchCount
    lastFetchTime,     \* this.lastFetchTime
    ticks,             \* the runHourlyFetch calls in progress, in the order they began
    started,           \* number of runHourlyFetch calls begun
    completed,         \* number of runHourlyFetch calls that ran to their end
    lastTrigger,       \* what began the latest tick: "start", "timer" or "fetchNow"
    timerAtBegin,      \* this.schedulerInterval as it was when the latest tick began
    lastTick,          \* the tick that ended in the latest step: what it iterated, returned, reported
    now,               \* wall clock, in minutes
    \* fetchHistory (geminiProvider.ts / ollamaProvider.ts / freeApiProvider.ts)
    clock,         \* new Date(): the instant, in half days
    fhPc,          \* position of the fetchHistory call: "idle", "awaiting", "done"
    fhBackend,     \* the provider class whose fetchHistory is running
    fhDays,        \* parameter `days`
    fhCutoff,      \* cutoffDate
    fhRaw,         \* data.history: the events of the backend's answer
    fhResult,      \* what the fetchHistory promise resolved to
    \* fetchEvent (geminiProvider.ts / ollamaProvider.ts / freeApiProvider.ts)
    feCalls,       \* every fetchEvent call so far: its provider, the answer, its result
    \* fetchAIEvent (geminiService.ts), as the scheduler calls it
    tickRoute,     \* the latest per-entity fetch of a tick: the cached provider, what served it
    \* runSourceDiscovery (candidateProfileUpdater.ts)
    lastScan,      \* the latest discovery scan: what it observed, found stored, returned
    \* analytics (analytics.ts)
    mxHistory,     \* a politician's `history`, as handed to the metrics functions
    mxMetrics,     \* what calculateAllMetrics returned for it last
    \* App (App.tsx)
    appPoliticians,         \* the `politicians` state
    appFeed,                \* the `feed` state
    backfillIdx,            \* loadHistoricalContext: index in its targets of the entity awaited
    addsPending,            \* ids of the candidates whose handleAddCandidate awaits its fetches
    addsUsed,               \* candidate ids handed out so far
    refreshingCandidateId,  \* the `refreshingCandidateId` state, NoCandidate for null
    refreshPc,              \* handleRefreshCandidate: "none", "event", "history"
    appOps                  \* number of user actions and live events so far

rtVars == <<rtPc, rtRetries, rtBaseDelay, rtCalls, rtDelays, rtOutcomes, rtResult>>

gpVars == <<cachedProvider, cachedConfigHash, gpConstructed, gpCalls>>

dbVars ==
    <<db, idb, idbStores, legacyBlob, dbPhase, loadIdx, loadPending, dbOps, lastOp,
      lastSave, dbError, tiersFaulty>>

schedVars ==
    <<schedulerInterval, armedTimers, fetchIntervalMin, isRunning,
      schedPoliticians, fetchCount, lastFetchTime, ticks, started, completed, lastTrigger,
      timerAtBegin, lastTick, now>>

fhVars == <<clock, fhPc, fhBackend, fhDays, fhCutoff, fhRaw, fhResult>>

appVars ==
    <<appPoliticians, appFeed, backfillIdx, addsPending, addsUsed, refreshingCandidateId, refreshPc,
      appOps>>

feVars == <<feCalls, tickRoute>>

dsVars == <<lastScan>>

mxVars == <<mxHistory, mxMetrics>>

vars == <<rtVars, gpVars, dbVars, schedVars, fhVars, feVars, appVars, dsVars, mxVars>>

-----------------------------------------------------------------------------
(* Generic helpers *)

\* String.prototype.includes on strings modelled as sequences of characters
Includes(s, pat) ==
    \E i \in 1..(Len(s) - Len(pat) + 1) : SubSeq(s, i, i + Len(pat) - 1) = pat

-----------------------------------------------------------------------------
(* withRetry *)

DefaultRetries == 3
DefaultBaseDelay == 2000

\* JavaScript values of error.status / error.code, tagged with their type
Undefined == "undefined"
Num429 == "n:429"
Num503 == "n:503"
Num401 == "n:401"
Str429 == "s:429"
StrResourceExhausted == "s:RESOURCE_EXHAUSTED"
StrUnauthenticated == "s:UNAUTHENTICATED"

Falsy(v) == v \in {Undefined, "n:0", "s:"}

\* a || b
OrElse(a, b) == IF Falsy(a) THEN b ELSE a

Msg429 == <<"4", "2", "9">>
MsgQuota == <<"q", "u", "o", "t", "a">>
MsgExhausted == <<"e", "x", "h", "a", "u", "s", "t", "e", "d">>

\* error.message texts
MsgEmpty == <<>>
MsgBadKey == <<"b", "a", "d", " ", "k", "e", "y">>
MsgJson42 == <<"J", "S", "O", "N", " ", "4", "2">>

Err(s, c, m) == [status |-> s, code |-> c, message |-> m]

\* HTTP statuses a backend may answer a chat request with when !response.ok
HttpStatuses == {429, 503, 401, 500}

\* response.text() of such an answer
HttpBodies == {MsgEmpty, MsgBadKey}

\* `${response.status}` in a template literal
StatusText(status) ==
    CASE status = 429 -> <<"4", "2", "9">>
      [] status = 503 -> <<"5", "0", "3">>
      [] status = 401 -> <<"4", "0", "1">>
      [] status = 500 -> <<"5", "0", "0">>

\* response.status as the tagged JavaScript number
StatusNumber(status) ==
    CASE status = 429 -> Num429
      [] status = 503 -> Num503
      [] status = 401 -> Num401
      [] status = 500 -> "n:500"

\* OllamaProvider.chat: throw new Error(`Ollama HTTP ${response.status}: ${await
\* response.text()}`), an Error with a message and neither status nor code
OllamaHttpError(status, body) ==
    Err(Undefined, Undefined,
        <<"O", "l", "l", "a", "m", "a", " ", "H", "T", "T", "P", " ">>
            \o StatusText(status) \o <<":", " ">> \o body)

\* FreeApiProvider.chat: throw { status: response.status, message: errText }
FreeApiHttpError(status, body) == Err(StatusNumber(status), Undefined, body)

ChatBackends == {"OllamaProvider", "FreeApiProvider"}

\* what chat() of a backend throws for an answer that is not ok; every
\* capability of these backends awaits this.chat(prompt) inside its operation
ChatHttpError(backend, status, body) ==
    IF backend = "OllamaProvider"
       THEN OllamaHttpError(status, body)
       ELSE FreeApiHttpError(status, body)

ChatHttpErrors ==
    {ChatHttpError(backend, status, body) :
        backend \in ChatBackends, status \in HttpStatuses, body \in HttpBodies}

\* errors operation() may throw: HTTP errors carrying a numeric status, SDK
\* errors carrying a string code, plain Errors carrying only a message
SignalErrors ==
    { Err(Num429, Undefined, MsgEmpty),
      Err(Undefined, StrResourceExhausted, MsgEmpty),
      Err(Undefined, Undefined, <<"H", "T", "T", "P", " ", "4", "2", "9">>),
      Err(Undefined, Undefined, <<"q", "u", "o", "t", "a", "s">>),
      Err(Undefined, Undefined, <<"i", "s", " ", "e", "x", "h", "a", "u", "s", "t", "e", "d">>),
      Err(Num503, Undefined, MsgEmpty),
      Err(Num401, StrUnauthenticated, MsgBadKey),
      Err("n:500", StrResourceExhausted, MsgEmpty),
      Err(Str429, Undefined, MsgJson42),
      Err(Undefined, Undefined, MsgJson42) }

Errors == SignalErrors \cup ChatHttpErrors

\* aiProvider.ts lines 32-38
IsRateLimit(e) ==
    LET status == OrElse(e.status, e.code)
        msg == e.message
    IN  \/ status = Num429
        \/ status = StrResourceExhausted
        \/ Includes(msg, Msg429)
        \/ Includes(msg, MsgQuota)
        \/ Includes(msg, MsgExhausted)

\* aiProvider.ts line 39
IsServerOverload(e) == OrElse(e.status, e.code) = Num503

ShouldRetryAnyError(e, retries) == retries > 0

\* aiProvider.ts line 41
ShouldRetry(e, retries) == (IsRateLimit(e) \/ IsServerOverload(e)) /\ retries > 0

\* values operation() may resolve to (null when the backend answered nothing)
OpValues == {"value", "null"}

RetryInit ==
    /\ rtPc = "idle"
    /\ rtRetries = DefaultRetries
    /\ rtBaseDelay = DefaultBaseDelay
    /\ rtCalls = 0
    /\ rtDelays = <<>>
    /\ rtOutcomes = <<>>
    /\ rtResult = "pending"

\* withRetry(operation) entered with the default parameters
WithRetryCall ==
    /\ rtPc = "idle"
    /\ rtPc' = "try"
    /\ rtRetries' = DefaultRetries
    /\ rtBaseDelay' = DefaultBaseDelay
    /\ UNCHANGED <<rtCalls, rtDelays, rtOutcomes, rtResult>>

\* `return await operation()` resolves
OperationResolves ==
    /\ rtPc = "try"
    /\ \E v \in OpValues :
        /\ rtOutcomes' = Append(rtOutcomes, [ok |-> TRUE, value |-> v])
        /\ rtResult' = v
    /\ rtCalls' = rtCalls + 1
    /\ rtPc' = "done"
    /\ UNCHANGED <<rtRetries, rtBaseDelay, rtDelays>>

OperationThrowsOneMore ==
    /\ rtPc = "try"
    /\ \E e \in Errors :
        /\ rtOutcomes' = Append(rtOutcomes, [ok |-> FALSE, error |-> e])
        /\ IF ShouldRetry(e, rtRetries + 1)
              THEN /\ rtPc' = "wait"
                   /\ UNCHANGED rtResult
              ELSE /\ rtPc' = "done"
                   /\ rtResult' = "null"
    /\ rtCalls' = rtCalls + 1
    /\ UNCHANGED <<rtRetries, rtBaseDelay, rtDelays>>

\* operation() throws: the catch block up to `await wait(baseDelay)` or `return null`
OperationThrows ==
    /\ rtPc = "try"
    /\ \E e \in Errors :
        /\ rtOutcomes' = Append(rtOutcomes, [ok |-> FALSE, error |-> e])
        /\ IF ShouldRetry(e, rtRetries)
              THEN /\ rtPc' = "wait"
                   /\ UNCHANGED rtResult
              ELSE /\ rtPc' = "done"
                   /\ rtResult' = "null"
    /\ rtCalls' = rtCalls + 1
    /\ UNCHANGED <<rtRetries, rtBaseDelay, rtDelays>>

WaitElapsesNoBackoff ==
    /\ rtPc = "wait"
    /\ rtDelays' = Append(rtDelays, rtBaseDelay)
    /\ rtRetries' = rtRetries - 1
    /\ rtBaseDelay' = rtBaseDelay
    /\ rtPc' = "try"
    /\ UNCHANGED <<rtCalls, rtOutcomes, rtResult>>

\* wait(baseDelay) elapses; `return withRetry(operation, retries - 1, baseDelay * 2)`
WaitElapses ==
    /\ rtPc = "wait"
    /\ rtDelays' = Append(rtDelays, rtBaseDelay)
    /\ rtRetries' = rtRetries - 1
    /\ rtBaseDelay' = rtBaseDelay * 2
    /\ rtPc' = "try"
    /\ UNCHANGED <<rtCalls, rtOutcomes, rtResult>>

RetryFrame == UNCHANGED <<gpVars, dbVars, schedVars, fhVars, appVars, feVars, dsVars, mxVars>>

RetryNext ==
    \/ WithRetryCall /\ RetryFrame
    \/ OperationResolves /\ RetryFrame
    \/ OperationThrows /\ RetryFrame
    \/ WaitElapses /\ RetryFrame

(* Properties of withRetry *)

\* the status the wrapper inspects: error.status, else error.code
SignalOf(e) == OrElse(e.status, e.code)

ThrottleStatus(e) == SignalOf(e) \in {Num429, StrResourceExhausted}

TransientSignal(e) ==
    \/ SignalOf(e) \in {Num429, StrResourceExhausted, Num503}
    \/ Includes(e.message, Msg429)
    \/ Includes(e.message, MsgQuota)
    \/ Includes(e.message, MsgExhausted)

\* the operation failed exactly k times, each time with status 429 or
\* RESOURCE_EXHAUSTED, and then succeeded
FailedThenSucceeded(k) ==
    /\ Len(rtOutcomes) = k + 1
    /\ \A i \in 1..k : ~rtOutcomes[i].ok /\ ThrottleStatus(rtOutcomes[i].error)
    /\ rtOutcomes[k + 1].ok

\* C1: for every K in 0..3, when the operation fails exactly K times with a
\* rate-limit status and then succeeds, withRetry returns the success value,
\* has invoked the operation K+1 times, and has waited 2000*2^(i-1) ms before
\* the i-th retry (strictly increasing delays).
C1_RetryThenSuccess ==
    \A k \in 0..DefaultRetries :
        FailedThenSucceeded(k) =>
            /\ rtPc = "done"
            /\ rtResult = rtOutcomes[k + 1].value
            /\ rtCalls = k + 1
            /\ rtDelays = [i \in 1..k |-> DefaultBaseDelay * 2^(i - 1)]
            /\ \A i \in 1..(k - 1) : rtDelays[i] < rtDelays[i + 1]

C1_Witness ==
    /\ FailedThenSucceeded(DefaultRetries)
    /\ rtOutcomes[DefaultRetries + 1].value = "value"
    /\ rtPc = "done"

\* C2: when the operation's failure is neither a rate-limit nor a
\* server-overload signal, the operation is invoked exactly once, no backoff
\* delay is waited and withRetry resolves to null.
C2_TerminalFailure ==
    (Len(rtOutcomes) >= 1 /\ ~rtOutcomes[1].ok /\ ~TransientSignal(rtOutcomes[1].error)) =>
        /\ rtPc = "done"
        /\ rtCalls = 1
        /\ Len(rtOutcomes) = 1
        /\ rtDelays = <<>>
        /\ rtResult = "null"

C2_Witness ==
    /\ rtPc = "done"
    /\ Len(rtOutcomes) = 1
    /\ ~rtOutcomes[1].ok
    /\ rtOutcomes[1].error = Err(Num401, StrUnauthenticated, MsgBadKey)

\* every invocation so far failed with a rate-limit or 503 signal
AlwaysThrottled ==
    \A i \in 1..Len(rtOutcomes) : ~rtOutcomes[i].ok /\ TransientSignal(rtOutcomes[i].error)

\* C21: the operation is never invoked more than 4 times; when every
\* invocation fails with a rate-limit or 503 signal, withRetry goes on until
\* the 4th invocation (1 initial call + 3 retries), has then waited 2000, 4000
\* and 8000 ms in that order, and resolves to null.
C21_AttemptCeiling ==
    /\ rtCalls <= DefaultRetries + 1
    /\ rtCalls = Len(rtOutcomes)
    /\ AlwaysThrottled =>
          IF rtCalls = DefaultRetries + 1
             THEN /\ rtPc = "done"
                  /\ rtResult = "null"
                  /\ rtDelays = <<2000, 4000, 8000>>
             ELSE /\ rtPc # "done"
                  /\ rtResult = "pending"
                  /\ Len(rtDelays) \in {rtCalls - 1, rtCalls}

C21_Witness ==
    /\ AlwaysThrottled
    /\ rtCalls = 4
    /\ rtOutcomes[1].error = Err(Num429, Undefined, MsgEmpty)
    /\ rtOutcomes[4].error = Err(Num503, Undefined, MsgEmpty)
    /\ rtPc = "done"

\* the i-th invocation of the operation failed on a backend's chat request
\* that was answered with HTTP status `status`
AnsweredWith(i, status) ==
    /\ ~rtOutcomes[i].ok
    /\ \E backend \in ChatBackends, body \in HttpBodies :
           rtOutcomes[i].error = ChatHttpError(backend, status, body)

\* the failure of the i-th invocation is retried after the i-th backoff delay
\* (while retries are left)
RetriedWithBackoff(i) ==
    i <= DefaultRetries =>
        /\ i < Len(rtOutcomes) \/ rtPc \in {"wait", "try"}
        /\ i <= Len(rtDelays) => rtDelays[i] = DefaultBaseDelay * 2^(i - 1)

\* the failure of the i-th invocation ended the call: no wait, no further attempt
NotRetried(i) ==
    /\ i = Len(rtOutcomes)
    /\ rtPc = "done"
    /\ rtResult = "null"
    /\ Len(rtDelays) = i - 1

\* C29: for every backend whose capabilities go through chat(), a call
\* answered with HTTP 429 or HTTP 503 is retried with backoff, and a call
\* answered with any other HTTP error status (401, 500) is not retried.
C29_HttpClassification ==
    \A i \in 1..Len(rtOutcomes) : \A status \in HttpStatuses :
        AnsweredWith(i, status) =>
            IF status \in {429, 503} THEN RetriedWithBackoff(i) ELSE NotRetried(i)

-----------------------------------------------------------------------------
(* Provider factory *)

MaxProviderCalls == 4

ProvGemini == <<"g", "e", "m", "i", "n", "i">>
ProvOllama == <<"o", "l", "l", "a", "m", "a">>
ProvHuggingface == <<"h", "u", "g", "g", "i", "n", "g", "f", "a", "c", "e">>
ProvOpenrouter == <<"o", "p", "e", "n", "r", "o", "u", "t", "e", "r">>
ProvUnknown == <<"g", "r", "o", "q">>

ConfigFields ==
    {"provider", "ollamaUrl", "ollamaModel", "huggingfaceApiKey", "openrouterApiKey", "geminiApiKey"}

BaseConfig ==
    [provider |-> ProvGemini,
     ollamaUrl |-> <<"u">>,
     ollamaModel |-> <<"m">>,
     huggingfaceApiKey |-> <<>>,
     openrouterApiKey |-> <<>>,
     geminiApiKey |-> <<"k">>]

\* configurations passed to getProvider: the base one and the ones that differ
\* from it in one field (settings edits), texts being free-form user input
Configs ==
    {BaseConfig}
    \cup {[BaseConfig EXCEPT !.provider = v] :
             v \in {ProvOllama, ProvHuggingface, ProvOpenrouter, ProvUnknown}}
    \cup {[BaseConfig EXCEPT !.ollamaUrl = <<"u", "|", "m">>],
          [BaseConfig EXCEPT !.ollamaModel = <<"m", "|", "m">>],
          [BaseConfig EXCEPT !.huggingfaceApiKey = <<"k">>],
          [BaseConfig EXCEPT !.openrouterApiKey = <<"k">>],
          [BaseConfig EXCEPT !.geminiApiKey = <<>>]}

Bar == <<"|">>

ConfigHashWithoutGeminiKey(config) ==
    config.provider \o Bar \o config.ollamaUrl \o Bar \o config.ollamaModel \o Bar
        \o config.huggingfaceApiKey \o Bar \o config.openrouterApiKey

\* aiProvider.ts configHash: the six fields joined by '|'
ConfigHash(config) ==
    config.provider \o Bar \o config.ollamaUrl \o Bar \o config.ollamaModel \o Bar
        \o config.huggingfaceApiKey \o Bar \o config.openrouterApiKey \o Bar
        \o config.geminiApiKey

NoProvider == [id |-> 0, kind |-> "none", args |-> <<>>]

\* the `switch (config.provider)` of getProvider: the instance constructed
NewProvider(config, id) ==
    CASE config.provider = ProvGemini ->
            [id |-> id, kind |-> "GeminiProvider", args |-> <<config.geminiApiKey>>]
      [] config.provider = ProvOllama ->
            [id |-> id, kind |-> "OllamaProvider",
             args |-> <<config.ollamaUrl, config.ollamaModel>>]
      [] config.provider = ProvHuggingface ->
            [id |-> id, kind |-> "FreeApiProvider:huggingface",
             args |-> <<config.huggingfaceApiKey>>]
      [] config.provider = ProvOpenrouter ->
            [id |-> id, kind |-> "FreeApiProvider:openrouter",
             args |-> <<config.openrouterApiKey>>]
      [] OTHER ->
            [id |-> id, kind |-> "GeminiProvider", args |-> <<config.geminiApiKey>>]

ProviderInit ==
    /\ cachedProvider = NoProvider
    /\ cachedConfigHash = <<>>
    /\ gpConstructed = 0
    /\ gpCalls = <<>>

GetProviderStaleHash ==
    /\ Len(gpCalls) < MaxProviderCalls
    /\ \E config \in Configs :
        LET hash == ConfigHash(config) IN
        IF cachedProvider # NoProvider /\ cachedConfigHash = hash
           THEN /\ gpCalls' = Append(gpCalls, [config |-> config, result |-> cachedProvider])
                /\ UNCHANGED <<cachedProvider, cachedConfigHash, gpConstructed>>
           ELSE /\ cachedProvider' = NewProvider(config, gpConstructed + 1)
                /\ gpConstructed' = gpConstructed + 1
                /\ UNCHANGED cachedConfigHash
                /\ gpCalls' = Append(gpCalls, [config |-> config, result |-> cachedProvider'])

\* getProvider(config)
GetProvider ==
    /\ Len(gpCalls) < MaxProviderCalls
    /\ \E config \in Configs :
        LET hash == ConfigHash(config) IN
        IF cachedProvider # NoProvider /\ cachedConfigHash = hash
           THEN /\ gpCalls' = Append(gpCalls, [config |-> config, result |-> cachedProvider])
                /\ UNCHANGED <<cachedProvider, cachedConfigHash, gpConstructed>>
           ELSE /\ cachedProvider' = NewProvider(config, gpConstructed + 1)
                /\ gpConstructed' = gpConstructed + 1
                /\ cachedConfigHash' = hash
                /\ gpCalls' = Append(gpCalls, [config |-> config, result |-> cachedProvider'])

ProviderFrame == UNCHANGED <<rtVars, dbVars, schedVars, fhVars, appVars, feVars, dsVars, mxVars>>

ProviderNext == GetProvider /\ ProviderFrame

(* Properties of getProvider *)

DiffersInOneField(c, d) == Cardinality({f \in ConfigFields : c[f] # d[f]}) = 1

\* the backend the closed provider enum names (gemini being the fallback)
SelectedKind(config) ==
    CASE config.provider = ProvOllama -> "OllamaProvider"
      [] config.provider = ProvHuggingface -> "FreeApiProvider:huggingface"
      [] config.provider = ProvOpenrouter -> "FreeApiProvider:openrouter"
      [] OTHER -> "GeminiProvider"

\* C3: two consecutive getProvider calls with configurations equal in all six
\* fields return the same instance; a call whose configuration differs from
\* the previous call's in a single field returns a different, newly
\* constructed instance of the backend kind config.provider selects.
C3_ConsecutiveCalls ==
    \A i \in 2..Len(gpCalls) :
        LET prev == gpCalls[i - 1]
            cur == gpCalls[i]
        IN  /\ (cur.config = prev.config) => (cur.result.id = prev.result.id)
            /\ DiffersInOneField(cur.config, prev.config) =>
                   /\ \A j \in 1..(i - 1) : gpCalls[j].result.id # cur.result.id
                   /\ cur.result.kind = SelectedKind(cur.config)

C3_Witness ==
    /\ Len(gpCalls) >= 3
    /\ gpCalls[1].config = gpCalls[2].config
    /\ gpCalls[1].result.id = gpCalls[2].result.id
    /\ DiffersInOneField(gpCalls[3].config, gpCalls[2].config)
    /\ gpCalls[3].config.geminiApiKey # gpCalls[2].config.geminiApiKey
    /\ gpCalls[3].result.id # gpCalls[2].result.id

\* C4 as stated: any two calls with equal configurations, consecutive or
\* not, return the same instance.
C4_SingletonPerConfig ==
    \A i \in 1..Len(gpCalls) : \A j \in i..Len(gpCalls) :
        (gpCalls[i].config = gpCalls[j].config) =>
            (gpCalls[i].result.id = gpCalls[j].result.id)

\* C4 (amended): two calls with equal configurations return the same instance
\* when every call between them passed a configuration with the same
\* serialized form; the factory keeps one instance, that of the latest
\* serialized configuration.
C4_SingletonWhileUnchanged ==
    \A i \in 1..Len(gpCalls) : \A j \in i..Len(gpCalls) :
        ( /\ gpCalls[i].config = gpCalls[j].config
          /\ \A k \in i..j : ConfigHash(gpCalls[k].config) = ConfigHash(gpCalls[i].config) )
        => (gpCalls[i].result.id = gpCalls[j].result.id)

C4_Witness ==
    /\ Len(gpCalls) >= 4
    /\ gpCalls[1].config = gpCalls[2].config
    /\ gpCalls[1].result.id = gpCalls[2].result.id
    /\ gpCalls[3].config # gpCalls[1].config
    /\ gpCalls[4].config = gpCalls[1].config
    /\ gpCalls[4].result.id # gpCalls[1].result.id

-----------------------------------------------------------------------------
(* Persistent store *)

MaxStoreOps == 2

\* arr.slice(0, n)
Take(seq, n) == SubSeq(seq, 1, IF Len(seq) < n THEN Len(seq) ELSE n)

Stores ==
    {"politicians", "sources", "feed", "config", "potential_sources", "aspirant_discovery",
     "fetch_schedule", "candidate_contexts", "discovered_sources", "meta"}

\* a stored value is <<v>>; a key that holds nothing is <<>>
Absent == <<>>
Stored(v) == <<v>>
NoBlob == <<>>
NoTime == -1
DefaultIntervalMinutes == 60
LegacyFeedCap == 50
FeedCap == 200

DefaultFetchSchedule ==
    [lastFetchTime |-> NoTime, nextFetchTime |-> NoTime, fetchCount |-> 0,
     hourlyFetchEnabled |-> TRUE, fetchIntervalMinutes |-> DefaultIntervalMinutes]

DefaultConfig == "DEFAULT_CONFIG"
EditedConfig == "edited config"
DefaultLastSync == "construction time"

\* getDefaultDB()
DefaultDB ==
    [politicians |-> <<>>, sources |-> <<>>, feed |-> <<>>, config |-> DefaultConfig,
     potentialSources |-> <<>>, lastSync |-> DefaultLastSync, aspirantDiscovery |-> <<>>,
     fetchSchedule |-> DefaultFetchSchedule, aiProviderConfig |-> BaseConfig,
     candidateContexts |-> <<>>, discoveredSources |-> <<>>]

\* tracked entities as the store sees them: identity and natural key
PolIds == {"1", "2"}
PolNames == {"William Ruto", "Kalonzo Musyoka"}
Politicians == [id : PolIds, name : PolNames]
Pol(i, n) == [id |-> i, name |-> n]

FeedEvents == {"e1", "e2"}

\* the mirror field each object store persists (saveAllToIDB)
StoreField(store) ==
    CASE store = "politicians" -> "politicians"
      [] store = "sources" -> "sources"
      [] store = "feed" -> "feed"
      [] store = "config" -> "config"
      [] store = "potential_sources" -> "potentialSources"
      [] store = "aspirant_discovery" -> "aspirantDiscovery"
      [] store = "fetch_schedule" -> "fetchSchedule"
      [] store = "candidate_contexts" -> "candidateContexts"
      [] store = "discovered_sources" -> "discoveredSources"
      [] store = "meta" -> "lastSync"

\* the order in which loadFromIDB reads the stores
LoadOrder ==
    <<"politicians", "sources", "feed", "config", "potential_sources", "aspirant_discovery",
      "fetch_schedule", "candidate_contexts", "discovered_sources", "meta">>

\* the `slim` object save() writes to localStorage
Slim(m) ==
    [politicians |-> m.politicians, sources |-> m.sources,
     feed |-> Take(m.feed, LegacyFeedCap), config |-> m.config, lastSync |-> m.lastSync]

\* loadFromLocalStorage(): { ...getDefaultDB(), ...JSON.parse(data) }
LoadFromLocalStorage(blob) ==
    IF blob = NoBlob THEN DefaultDB
    ELSE LET data == blob[1] IN
         [DefaultDB EXCEPT !.politicians = data.politicians, !.sources = data.sources,
                           !.feed = data.feed, !.config = data.config,
                           !.lastSync = data.lastSync]

EmptyIdb == [s \in Stores |-> Absent]

\* contents the tiers may hold when the page loads
SavedMirror ==
    [DefaultDB EXCEPT !.politicians = <<Pol("1", "William Ruto")>>, !.feed = <<"e1">>,
                      !.fetchSchedule = [DefaultFetchSchedule EXCEPT !.fetchCount = 1,
                                                                      !.lastFetchTime = 0,
                                                                      !.nextFetchTime = 1]]
SavedIdb == [s \in Stores |-> Stored(SavedMirror[StoreField(s)])]
InitialBlobs == {NoBlob, Stored(Slim(SavedMirror))}
InitialIdbs == {EmptyIdb, SavedIdb}

NoSave == [n |-> 0, legacy |-> "none", issued |-> {}, failed |-> "none", mirror |-> DefaultDB]
NoOp == [name |-> "none", arg |-> "none", before |-> DefaultDB, result |-> "none"]

\* constructor: this.db = loadFromLocalStorage(); this.idbReady = initIndexedDB()
StoreInit ==
    /\ legacyBlob \in InitialBlobs
    /\ idbStores \in InitialIdbs
    /\ db = LoadFromLocalStorage(legacyBlob)
    /\ idb = FALSE
    /\ dbPhase \in {"opening", "ready"}
    /\ (dbPhase = "ready") => (idbStores = EmptyIdb)
    /\ loadIdx = 0
    /\ loadPending = Absent
    /\ dbOps = 0
    /\ lastOp = NoOp
    /\ lastSave = NoSave
    /\ dbError = "none"
    /\ tiersFaulty = TRUE

\* outcomes of localStorage.setItem in save()
LegacyOutcomes == IF tiersFaulty THEN {"ok", "quota"} ELSE {"ok"}

\* the store whose idbPut may fail in one saveAllToIDB: transaction() throws
\* (caught in idbPut) or the transaction fails (tx.onerror, caught in saveAllToIDB)
FailingStores == IF tiersFaulty THEN {"none", "politicians"} ELSE {"none"}

\* saveAllToIDB(): one idbPut per store, all issued in the same synchronous run
SaveAllToIDB(m, failing) ==
    IF idb
       THEN idbStores' = [s \in Stores |->
                            IF s = failing THEN idbStores[s] ELSE Stored(m[StoreField(s)])]
       ELSE UNCHANGED idbStores

IssuedPuts == IF idb THEN Stores ELSE {}

SaveLegacyFirstUncaught(m) ==
    \E legacy \in LegacyOutcomes, failing \in FailingStores :
        IF legacy = "quota"
           THEN /\ UNCHANGED <<idbStores, legacyBlob>>
                /\ lastSave' = [n |-> 1 - lastSave.n, legacy |-> legacy, issued |-> {},
                                failed |-> "none", mirror |-> m]
                /\ dbError' = "QuotaExceededError"
           ELSE /\ SaveAllToIDB(m, failing)
                /\ legacyBlob' = Stored(Slim(m))
                /\ lastSave' = [n |-> 1 - lastSave.n, legacy |-> legacy,
                                issued |-> IssuedPuts, failed |-> failing, mirror |-> m]
                /\ dbError' = "none"

\* save() on the mirror m: saveAllToIDB(), then the try/catch around
\* localStorage.setItem, which may throw a quota error
Save(m) ==
    \E legacy \in LegacyOutcomes, failing \in FailingStores :
        /\ SaveAllToIDB(m, failing)
        /\ legacyBlob' = (IF legacy = "ok" THEN Stored(Slim(m)) ELSE legacyBlob)
        /\ lastSave' = [n |-> 1 - lastSave.n, legacy |-> legacy, issued |-> IssuedPuts,
                        failed |-> failing, mirror |-> m]
        /\ dbError' = "none"

\* a public operation op(arg) that leaves the mirror as m and calls save()
StoreApply(m) ==
    /\ db' = m
    /\ Save(m)
    /\ UNCHANGED <<idb, dbPhase, loadIdx, loadPending, tiersFaulty>>

\* the same, called by the user interface (a bounded number of times)
Mutate(name, arg, m) ==
    /\ dbOps < MaxStoreOps
    /\ dbOps' = dbOps + 1
    /\ lastOp' = [name |-> name, arg |-> arg, before |-> db, result |-> "void"]
    /\ StoreApply(m)

SetPoliticians ==
    \E list \in {<<>>, <<Pol("1", "William Ruto")>>, <<Pol("2", "Kalonzo Musyoka"), Pol("1", "William Ruto")>>} :
        Mutate("setPoliticians", list, [db EXCEPT !.politicians = list])

PoliticianExistsById(list, politician) ==
    \E i \in 1..Len(list) : list[i].id = politician.id

\* addPolitician: this.db.politicians.find(p => p.id === ... || p.name === ...)
PoliticianExists(list, politician) ==
    \E i \in 1..Len(list) : list[i].id = politician.id \/ list[i].name = politician.name

\* addPolitician(politician)
AddPolitician ==
    \E politician \in Politicians :
        IF ~PoliticianExists(db.politicians, politician)
           THEN Mutate("addPolitician", politician,
                       [db EXCEPT !.politicians = Append(@, politician)])
           ELSE /\ dbOps < MaxStoreOps
                /\ dbOps' = dbOps + 1
                /\ lastOp' = [name |-> "addPolitician", arg |-> politician, before |-> db,
                               result |-> "void"]
                /\ dbError' = "none"
                /\ UNCHANGED <<db, idb, idbStores, legacyBlob, dbPhase, loadIdx,
                               loadPending, lastSave, tiersFaulty>>

\* removePolitician(id)
RemovePolitician ==
    \E id \in PolIds :
        LET Keep(q) == q.id # id IN
        Mutate("removePolitician", id,
               [db EXCEPT !.politicians = SelectSeq(@, Keep)])

\* addFeedEvent(event)
AddFeedEvent ==
    \E event \in FeedEvents :
        Mutate("addFeedEvent", event, [db EXCEPT !.feed = Take(<<event>> \o @, FeedCap)])

\* setConfig(config)
SetConfig ==
    \E config \in {DefaultConfig, EditedConfig} :
        Mutate("setConfig", config, [db EXCEPT !.config = config])

\* request.onsuccess up to the first idbGet of loadFromIDB
IdbOpenSuccess ==
    /\ dbPhase = "opening"
    /\ idb' = TRUE
    /\ dbPhase' = "loading"
    /\ loadIdx' = 1
    /\ loadPending' = idbStores[LoadOrder[1]]
    /\ UNCHANGED <<db, idbStores, legacyBlob, dbOps, lastOp, lastSave, dbError, tiersFaulty>>

\* request.onerror: resolve() with this.idb still null
IdbOpenError ==
    /\ dbPhase = "opening"
    /\ dbPhase' = "ready"
    /\ UNCHANGED <<db, idb, idbStores, legacyBlob, loadIdx, loadPending, dbOps, lastOp,
                   lastSave, dbError, tiersFaulty>>

\* value || fallback, for a store that holds nothing
OrDefault(value, fallback) == IF value = Absent THEN fallback ELSE value[1]

\* !politicians || (Array.isArray(politicians) && politicians.length === 0)
NoPoliticians(got) == IF got = Absent THEN TRUE ELSE got[1] = <<>>

\* loadFromIDB: the first idbGet resolved with no politicians: return false,
\* migrateFromLocalStorage() -> saveAllToIDB() of the mirror, then resolve()
IdbLoadEmptyMigrate ==
    /\ dbPhase = "loading"
    /\ loadIdx = 1
    /\ NoPoliticians(loadPending)
    /\ \E failing \in FailingStores : SaveAllToIDB(db, failing)
    /\ dbPhase' = "ready"
    /\ loadIdx' = 0
    /\ loadPending' = Absent
    /\ UNCHANGED <<db, idb, legacyBlob, dbOps, lastOp, lastSave, dbError, tiersFaulty>>

\* loadFromIDB: an awaited idbGet resolved: assign the mirror field, issue the
\* next idbGet, or return true after the last one
IdbLoadStep ==
    /\ dbPhase = "loading"
    /\ loadIdx >= 1
    /\ ~(loadIdx = 1 /\ NoPoliticians(loadPending))
    /\ LET field == StoreField(LoadOrder[loadIdx])
           value == IF field \in {"config", "fetchSchedule"}
                       THEN OrDefault(loadPending, DefaultDB[field])
                    ELSE IF field = "lastSync"
                       THEN OrDefault(loadPending, DefaultLastSync)
                    ELSE OrDefault(loadPending, <<>>)
       IN  db' = [db EXCEPT ![field] = value]
    /\ IF loadIdx < Len(LoadOrder)
          THEN /\ loadIdx' = loadIdx + 1
               /\ loadPending' = idbStores[LoadOrder[loadIdx + 1]]
               /\ UNCHANGED dbPhase
          ELSE /\ loadIdx' = 0
               /\ loadPending' = Absent
               /\ dbPhase' = "ready"
    /\ UNCHANGED <<idb, idbStores, legacyBlob, dbOps, lastOp, lastSave, dbError, tiersFaulty>>

StoreFrame == UNCHANGED <<rtVars, gpVars, schedVars, fhVars, appVars, feVars, dsVars, mxVars>>

StoreNext ==
    \/ SetPoliticians /\ StoreFrame
    \/ AddPolitician /\ StoreFrame
    \/ RemovePolitician /\ StoreFrame
    \/ AddFeedEvent /\ StoreFrame
    \/ SetConfig /\ StoreFrame
    \/ IdbOpenSuccess /\ StoreFrame
    \/ IdbOpenError /\ StoreFrame
    \/ IdbLoadEmptyMigrate /\ StoreFrame
    \/ IdbLoadStep /\ StoreFrame

(* The rest of the store's public API, and a primary tier left by a session *)
(* that ended with nobody tracked                                           *)

\* updateFetchSchedule(schedule): { ...this.db.fetchSchedule, ...schedule }
UpdateFetchSchedule ==
    \E count \in {2} :
        Mutate("updateFetchSchedule", count,
               [db EXCEPT !.fetchSchedule = [@ EXCEPT !.fetchCount = count]])

\* outcomes of localStorage.removeItem: done, or the storage cannot be accessed
RemoveOutcomes == IF tiersFaulty THEN {"ok", "throws"} ELSE {"ok"}

\* clearAllData(): localStorage.removeItem (outside any try), the mirror
\* reset, then one clear() per object store if the connection is open
ClearAllData ==
    /\ dbOps < MaxStoreOps
    /\ dbOps' = dbOps + 1
    /\ lastOp' = [name |-> "clearAllData", arg |-> "none", before |-> db, result |-> "void"]
    /\ \E legacy \in RemoveOutcomes, failing \in FailingStores :
        IF legacy = "throws"
           THEN /\ dbError' = "SecurityError"
                /\ UNCHANGED <<db, idbStores, legacyBlob>>
           ELSE /\ dbError' = "none"
                /\ legacyBlob' = NoBlob
                /\ db' = DefaultDB
                /\ idbStores' = IF idb
                                   THEN [s \in Stores |->
                                           IF s = failing THEN idbStores[s] ELSE Absent]
                                   ELSE idbStores
    /\ UNCHANGED <<idb, dbPhase, loadIdx, loadPending, lastSave, tiersFaulty>>

\* a blob handed to importData: text that is not JSON, or a document with
\* some of the top-level collections
ImportBlob(parses, politicians, feed, sources) ==
    [parses |-> parses, politicians |-> politicians, feed |-> feed, sources |-> sources]

ImportBlobs ==
    {ImportBlob(FALSE, Absent, Absent, Absent),
     ImportBlob(TRUE, Absent, Absent, Absent),
     ImportBlob(TRUE, Stored(<<Pol("2", "Kalonzo Musyoka")>>), Absent, Absent),
     ImportBlob(TRUE, Stored(<<Pol("2", "Kalonzo Musyoka")>>), Stored(<<"e2">>), Stored(<<>>))}

\* importData(jsonString) of the analytics module: the three collections, or null
ImportDataFile(blob) ==
    IF ~blob.parses \/ blob.politicians = Absent \/ blob.feed = Absent \/ blob.sources = Absent
       THEN [null |-> TRUE, politicians |-> <<>>, feed |-> <<>>, sources |-> <<>>]
       ELSE [null |-> FALSE, politicians |-> blob.politicians[1], feed |-> blob.feed[1],
             sources |-> blob.sources[1]]

\* Database.importData(jsonString): JSON.parse, { ...getDefaultDB(), ...data },
\* save(), return true; return false when JSON.parse throws
ImportData ==
    /\ dbOps < MaxStoreOps
    /\ dbOps' = dbOps + 1
    /\ \E blob \in ImportBlobs :
        IF blob.parses
           THEN /\ lastOp' = [name |-> "importData", arg |-> blob, before |-> db,
                               result |-> "true"]
                /\ StoreApply([DefaultDB EXCEPT
                                  !.politicians = OrDefault(blob.politicians, @),
                                  !.feed = OrDefault(blob.feed, @),
                                  !.sources = OrDefault(blob.sources, @)])
           ELSE /\ lastOp' = [name |-> "importData", arg |-> blob, before |-> db,
                               result |-> "false"]
                /\ dbError' = "none"
                /\ UNCHANGED <<db, idb, idbStores, legacyBlob, dbPhase, loadIdx, loadPending,
                               lastSave, tiersFaulty>>

\* the primary tier after a session that tracked nobody when it ended: the
\* politicians store holds an empty list, the other stores hold its data
OrphanIdb ==
    [s \in Stores |->
        Stored([SavedMirror EXCEPT !.politicians = <<>>][StoreField(s)])]

\* constructor, the tiers holding what an earlier session left
StoreApiInit ==
    /\ legacyBlob \in InitialBlobs
    /\ idbStores \in {SavedIdb, OrphanIdb}
    /\ db = LoadFromLocalStorage(legacyBlob)
    /\ idb = FALSE
    /\ dbPhase = "opening"
    /\ loadIdx = 0
    /\ loadPending = Absent
    /\ dbOps = 0
    /\ lastOp = NoOp
    /\ lastSave = NoSave
    /\ dbError = "none"
    /\ tiersFaulty \in BOOLEAN

StoreApiNext ==
    \/ StoreNext
    \/ UpdateFetchSchedule /\ StoreFrame
    \/ ClearAllData /\ StoreFrame
    \/ ImportData /\ StoreFrame

\* the store once initIndexedDB has finished, holding an earlier session's data
StoreReady ==
    /\ legacyBlob = Stored(Slim(SavedMirror))
    /\ idbStores = SavedIdb
    /\ db = SavedMirror
    /\ idb = TRUE
    /\ dbPhase = "ready"
    /\ loadIdx = 0
    /\ loadPending = Absent
    /\ dbOps = 0
    /\ lastOp = NoOp
    /\ lastSave = NoSave
    /\ dbError = "none"
    /\ tiersFaulty = FALSE

(* Properties of the store *)

AddPoliticianStep == dbOps' = dbOps + 1 /\ lastOp'.name = "addPolitician"

SameIdentity(p, q) == p.id = q.id \/ p.name = q.name

Holds(list, p) == \E i \in 1..Len(list) : SameIdentity(list[i], p)

\* C9: addPolitician(p) on a collection that already holds an entity with the
\* same id or the same name leaves the collection unchanged and raises no
\* error; after any addPolitician(p) the collection holds such an entity, so
\* a second identical call yields the collection, of the same size, of the first.
C9_AddPoliticianIdempotent ==
    [][ AddPoliticianStep =>
          /\ Holds(db.politicians, lastOp'.arg) =>
                 (db'.politicians = db.politicians /\ dbError' = "none")
          /\ Holds(db'.politicians, lastOp'.arg)
          /\ Len(db'.politicians) <= Len(db.politicians) + 1 ]_vars

C9_Witness ==
    /\ dbOps = 2
    /\ lastOp.name = "addPolitician"
    /\ lastOp.before.politicians = <<Pol("1", "William Ruto")>>
    /\ lastOp.arg = Pol("2", "William Ruto")
    /\ db.politicians = <<Pol("1", "William Ruto")>>

SaveStep == lastSave'.n # lastSave.n

C15_ReadYourWrites ==
    /\ lastOp.name = "setPoliticians" => db.politicians = lastOp.arg
    /\ lastOp.name = "setConfig" => db.config = lastOp.arg
    /\ lastOp.name = "addPolitician" => Holds(db.politicians, lastOp.arg)
    /\ lastOp.name = "removePolitician" =>
            \A i \in 1..Len(db.politicians) : db.politicians[i].id # lastOp.arg
    /\ lastOp.name = "addFeedEvent" => db.feed # <<>> /\ db.feed[1] = lastOp.arg

\* a step of the initial load, before any public operation
StartupStep == dbOps' = 0

\* C16: during startup the legacy blob is never deleted or altered, the
\* primary tier is written (migration) only if it held no data at all, and
\* when the load ends over a primary tier that held some collection, the
\* mirror holds every collection the primary tier held.
C16_MigrateOnlyWhenEmpty ==
    [][ (StartupStep /\ ~tiersFaulty) =>
          /\ legacyBlob' = legacyBlob
          /\ (idbStores' # idbStores) => (idbStores = EmptyIdb)
          /\ (dbPhase = "loading" /\ dbPhase' = "ready" /\ idbStores # EmptyIdb) =>
                \A st \in Stores :
                    (idbStores[st] # Absent) => (db'[StoreField(st)] = idbStores[st][1]) ]_vars

OpStep == dbOps' = dbOps + 1

\* the mirror m shows the change of the operation op
Applied(op, m) ==
    /\ op.name = "setPoliticians" => m.politicians = op.arg
    /\ op.name = "setConfig" => m.config = op.arg
    /\ op.name = "addPolitician" => Holds(m.politicians, op.arg)
    /\ op.name = "removePolitician" =>
            \A i \in 1..Len(m.politicians) : m.politicians[i].id # op.arg
    /\ op.name = "addFeedEvent" => m.feed # <<>> /\ m.feed[1] = op.arg
    /\ op.name = "updateFetchSchedule" => m.fetchSchedule.fetchCount = op.arg
    /\ op.name = "clearAllData" => m = DefaultDB
    /\ (op.name = "importData" /\ op.result = "true") =>
            m.politicians = OrDefault(op.arg.politicians, <<>>)

\* C17: every public store operation returns without raising and leaves its
\* change in the mirror, whether or not the legacy tier or the primary tier
\* fails while it runs.
C17_OperationsNeverRaise ==
    [][ OpStep => (dbError' = "none" /\ Applied(lastOp', db')) ]_vars

\* a blob that does not parse or lacks one of politicians, feed, sources
InvalidBlob(blob) ==
    ~blob.parses \/ blob.politicians = Absent \/ blob.feed = Absent \/ blob.sources = Absent

\* C18: importData of a blob that does not parse, or that parses but lacks a
\* required top-level collection, returns failure (false, null) without
\* raising and leaves the mirror and both durable tiers as they were.
C18_InvalidImportRejected ==
    [][ (OpStep /\ lastOp'.name = "importData" /\ InvalidBlob(lastOp'.arg)) =>
          /\ lastOp'.result = "false"
          /\ ImportDataFile(lastOp'.arg).null
          /\ dbError' = "none"
          /\ UNCHANGED <<db, idbStores, legacyBlob>> ]_vars

\* an object store that holds nothing, or its collection's empty default
StoreEmpty(st) ==
    idbStores[st] = Absent \/ idbStores[st] = Stored(DefaultDB[StoreField(st)])

\* C19: from clearAllData() until the next write through the store API,
\* every getter returns its empty default, the legacy blob is absent and
\* every object store of the primary tier is empty, also when clearAllData()
\* ran before the primary tier finished initializing (no tier failing).
C19_ClearedStaysCleared ==
    (lastOp.name = "clearAllData" /\ ~tiersFaulty) =>
        /\ db = DefaultDB
        /\ legacyBlob = NoBlob
        /\ \A st \in Stores : StoreEmpty(st)

(* waitForReady: the promise initIndexedDB returns *)

\* the constructor, with the three ways the executor of initIndexedDB's promise
\* may end before it yields: indexedDB undefined (resolve), open() returned a
\* request (pending), open() threw (the promise is rejected)
ReadyInit ==
    /\ legacyBlob \in InitialBlobs
    /\ idbStores \in InitialIdbs
    /\ db = LoadFromLocalStorage(legacyBlob)
    /\ idb = FALSE
    /\ dbPhase \in {"opening", "ready", "rejected"}
    /\ (dbPhase # "opening") => (idbStores = EmptyIdb)
    /\ loadIdx = 0
    /\ loadPending = Absent
    /\ dbOps = 0
    /\ lastOp = NoOp
    /\ lastSave = NoSave
    /\ dbError = "none"
    /\ tiersFaulty = TRUE

\* the events initIndexedDB waits for: the open request settles, an idbGet
\* of the load settles, the puts of the migration settle
InitIndexedDBStep ==
    /\ \/ IdbOpenSuccess
       \/ IdbOpenError
       \/ IdbLoadEmptyMigrate
       \/ IdbLoadStep
    /\ StoreFrame

\* waitForReady() resolves: idbReady goes from pending to resolved
Resolves == dbPhase # "ready" /\ dbPhase' = "ready"

\* C24: waitForReady() resolves only when the open failed, when the load from
\* the primary tier has read its last store, or when the migration has been
\* written; it never rejects; and it eventually resolves, whether the primary
\* tier is unavailable, its open fails or its open succeeds.
C24_ReadyAfterInitialization ==
    /\ [][ Resolves =>
              \/ dbPhase = "opening" /\ ~idb'
              \/ dbPhase = "loading" /\ idb /\ loadIdx = Len(LoadOrder)
              \/ /\ dbPhase = "loading" /\ idb /\ loadIdx = 1
                 /\ NoPoliticians(loadPending)
                 /\ \E failing \in FailingStores :
                        \A st \in Stores \ {failing} :
                            idbStores'[st] = Stored(db[StoreField(st)]) ]_vars
    /\ [](dbPhase # "rejected")
    /\ <>(dbPhase = "ready")

-----------------------------------------------------------------------------
(* History reconstruction: fetchHistory *)

MaxRaw == 3

BaselineScore == 100

\* scores and impacts are counted in thousandths
Thousandths(x) == 1000 * x

\* parseFloat(x.toFixed(2)): the nearest hundredth, halves away from zero
Round2(x) ==
    IF x >= 0 THEN ((x + 5) \div 10) * 10 ELSE 0 - ((((0 - x) + 5) \div 10) * 10)

\* a date string: an ISO day (YYYY-MM-DD), the empty string, or other text
DateStr(day) == [text |-> "iso", day |-> day]
EmptyDate == [text |-> "", day |-> 0]
GarbledDate == [text |-> "last week", day |-> 0]

\* new Date(s): midnight (UTC) of an ISO day, an invalid date otherwise
NewDate(s) ==
    IF s.text = "iso" THEN [valid |-> TRUE, time |-> 2 * s.day]
    ELSE [valid |-> FALSE, time |-> 0]

IsNaN(date) == ~date.valid

\* the instants a call may be made at: midnight and noon of day 4
NowChoices == {8, 9}

\* the windows fetchHistory is called with, in days
WindowChoices == {1, 2}

\* cutoffDate.setDate(cutoffDate.getDate() - days)
DaysBefore(instant, days) == instant - 2 * days

\* sourceUrl values: absent, or a text
NoUrl == [defined |-> FALSE, text |-> <<>>]
Url(text) == [defined |-> TRUE, text |-> text]
UrlHttps == Url(<<"h", "t", "t", "p", "s", ":">>)
UrlHttp == Url(<<"h", "t", "t", "p", ":">>)

StartsWith(text, prefix) ==
    Len(text) >= Len(prefix) /\ SubSeq(text, 1, Len(prefix)) = prefix

RawEvent(date, impact, url) == [date |-> date, impact |-> impact, sourceUrl |-> url]

\* the events a backend's answer may hold
RawEvents ==
    {RawEvent(DateStr(4), 1004, UrlHttps),
     RawEvent(DateStr(3), 0 - 2500, UrlHttps),
     RawEvent(DateStr(3), 4, UrlHttp),
     RawEvent(DateStr(4), 1000, NoUrl),
     RawEvent(DateStr(3), 0, Url(<<"w", "w", "w", ".">>)),
     RawEvent(DateStr(2), 5000, Url(<<>>)),
     RawEvent(DateStr(1), 2000, UrlHttps),
     RawEvent(GarbledDate, 3000, UrlHttps)}

HistoryBackends == {"GeminiProvider", "OllamaProvider", "FreeApiProvider"}

\* e.sourceUrl && e.sourceUrl.startsWith('http')
HasUrl(e) ==
    /\ e.sourceUrl.defined
    /\ e.sourceUrl.text # <<>>
    /\ StartsWith(e.sourceUrl.text, <<"h", "t", "t", "p">>)

IsRecentNoCutoff(e, cutoffDate) == ~IsNaN(NewDate(e.date))

\* !isNaN(eventDate.getTime()) && eventDate >= cutoffDate
IsRecent(e, cutoffDate) ==
    LET eventDate == NewDate(e.date)
    IN  ~IsNaN(eventDate) /\ eventDate.time >= cutoffDate

\* the filter callback of each backend
KeepsEvent(backend, e, cutoffDate) ==
    IF backend = "GeminiProvider"
       THEN IsRecent(e, cutoffDate) /\ HasUrl(e)
       ELSE IsRecent(e, cutoffDate)

\* events.sort((a, b) => new Date(a.date).getTime() - new Date(b.date).getTime())
RECURSIVE SortByDate(_)
SortByDate(events) ==
    IF events = <<>> THEN <<>>
    ELSE LET n == Len(events)
             e == events[n]
             rest == SortByDate(SubSeq(events, 1, n - 1))
             k == Cardinality({i \in 1..Len(rest) :
                                   NewDate(rest[i].date).time <= NewDate(e.date).time})
         IN  SubSeq(rest, 1, k) \o <<e>> \o SubSeq(rest, k + 1, Len(rest))

\* the amount `currentScore +=` adds for an event
ImpactAdded(backend, e) ==
    IF backend = "FreeApiProvider" /\ e.impact = 0 THEN 0 ELSE e.impact

\* currentScore after the first k events of the loop
RECURSIVE CurrentScore(_, _, _)
CurrentScore(backend, events, k) ==
    IF k = 0 THEN Thousandths(BaselineScore)
    ELSE CurrentScore(backend, events, k - 1) + ImpactAdded(backend, events[k])

HistoryItem(time, score, url) == [time |-> time, score |-> score, sourceUrl |-> url]

\* the body of fetchHistory after the answer has been parsed
BuildHistory(backend, raw, cutoffDate) ==
    LET Keep(e) == KeepsEvent(backend, e, cutoffDate)
        sortedEvents == SortByDate(SelectSeq(raw, Keep))
    IN  [k \in 1..Len(sortedEvents) |->
            HistoryItem(sortedEvents[k].date,
                        Round2(CurrentScore(backend, sortedEvents, k)),
                        sortedEvents[k].sourceUrl)]

\* what fetchHistory resolves to: null, or a series
NullHistory == [null |-> TRUE, points |-> <<>>]
Series(points) == [null |-> FALSE, points |-> points]

\* no call yet; it is midnight of day 4
HistoryInit ==
    /\ clock = NewDate(DateStr(4)).time
    /\ fhPc = "idle"
    /\ fhBackend = "GeminiProvider"
    /\ fhDays = 0
    /\ fhCutoff = 0
    /\ fhRaw = <<>>
    /\ fhResult = NullHistory

\* fetchHistory(politician, days) up to the request: cutoffDate is computed
FetchHistoryCall ==
    /\ fhPc # "awaiting"
    /\ \E backend \in HistoryBackends, days \in WindowChoices, instant \in NowChoices :
        /\ instant >= clock
        /\ clock' = instant
        /\ fhBackend' = backend
        /\ fhDays' = days
        /\ fhCutoff' = DaysBefore(instant, days)
    /\ fhPc' = "awaiting"
    /\ fhRaw' = <<>>
    /\ fhResult' = NullHistory

\* fetchHistory on a provider that is not configured: null at once
FetchHistoryUnconfigured ==
    /\ fhPc # "awaiting"
    /\ \E backend \in HistoryBackends, days \in WindowChoices :
        /\ fhBackend' = backend
        /\ fhDays' = days
    /\ fhPc' = "done"
    /\ fhRaw' = <<>>
    /\ fhResult' = NullHistory
    /\ UNCHANGED <<clock, fhCutoff>>

\* the backend writes one more event into its answer
AnswerGrows ==
    /\ fhPc = "awaiting"
    /\ Len(fhRaw) < MaxRaw
    /\ \E e \in RawEvents : fhRaw' = Append(fhRaw, e)
    /\ UNCHANGED <<clock, fhPc, fhBackend, fhDays, fhCutoff, fhResult>>

\* the answer arrives and parses: filter, sort, fold
FetchHistoryResolves ==
    /\ fhPc = "awaiting"
    /\ fhResult' = Series(BuildHistory(fhBackend, fhRaw, fhCutoff))
    /\ fhPc' = "done"
    /\ UNCHANGED <<clock, fhBackend, fhDays, fhCutoff, fhRaw>>

\* no text, no JSON or no `history` field in the answer, or an error that
\* withRetry turns into null
FetchHistoryNoAnswer ==
    /\ fhPc = "awaiting"
    /\ fhResult' = NullHistory
    /\ fhPc' = "done"
    /\ UNCHANGED <<clock, fhBackend, fhDays, fhCutoff, fhRaw>>

HistoryFrame == UNCHANGED <<rtVars, gpVars, dbVars, schedVars, appVars, feVars, dsVars, mxVars>>

HistoryNext ==
    \/ FetchHistoryCall /\ HistoryFrame
    \/ FetchHistoryUnconfigured /\ HistoryFrame
    \/ AnswerGrows /\ HistoryFrame
    \/ FetchHistoryResolves /\ HistoryFrame
    \/ FetchHistoryNoAnswer /\ HistoryFrame

(* Properties of fetchHistory *)

Resolved == fhPc = "done" /\ ~fhResult.null

\* C7: whatever the backend and the window N, every point of the series
\* fetchHistory returns carries a date that parses and is not earlier than
\* now - N days; events whose date does not parse give no point.
C7_NoPointBeforeWindow ==
    Resolved =>
        /\ \A k \in 1..Len(fhResult.points) :
            LET date == NewDate(fhResult.points[k].time)
            IN  ~IsNaN(date) /\ date.time >= DaysBefore(clock, fhDays)
        /\ Len(fhResult.points) <=
               Cardinality({i \in 1..Len(fhRaw) : ~IsNaN(NewDate(fhRaw[i].date))})

\* a backend without the URL filter answered with an event older than the
\* window, one whose date does not parse and one inside the window
C7_Witness ==
    /\ Resolved
    /\ fhBackend = "FreeApiProvider"
    /\ Len(fhRaw) = 3
    /\ \E i \in 1..3 : IsNaN(NewDate(fhRaw[i].date))
    /\ \E i \in 1..3 :
        ~IsNaN(NewDate(fhRaw[i].date)) /\ NewDate(fhRaw[i].date).time < fhCutoff
    /\ Len(fhResult.points) = 1

\* an event the claim counts: parsable date inside the window and a URL
\* (one that starts with http, the reading most favourable to the code)
Qualifies(e) == IsRecent(e, DaysBefore(clock, fhDays)) /\ HasUrl(e)

\* C8 (as stated): the series holds exactly one point per raw event with a
\* parsable in-window date and a provenance URL, in ascending date order,
\* and the k-th score is the baseline 100 plus the impacts of the first k
\* such events, rounded to 2 decimals.
C8_OnePointPerQualifyingEvent ==
    Resolved =>
        LET expected == SortByDate(SelectSeq(fhRaw, Qualifies))
            points == fhResult.points
        IN  /\ Len(points) = Len(expected)
            /\ \A k \in 1..Len(points) :
                /\ k <= Len(expected)
                /\ points[k].time = expected[k].date
                /\ points[k].sourceUrl = expected[k].sourceUrl
                /\ points[k].score =
                       Round2(CurrentScore("GeminiProvider", expected, k))
            /\ \A k \in 1..(Len(points) - 1) :
                NewDate(points[k].time).time <= NewDate(points[k + 1].time).time

-----------------------------------------------------------------------------
(* fetchEvent *)

MaxEventCalls == 2

\* what the backend answered: nothing (no text), text that is not JSON, a
\* JSON object with its sourceUrl field and (Gemini only) the uri of the
\* first grounding chunk that has one, or a failed request
EventAnswer(kind, url, uri) == [kind |-> kind, sourceUrl |-> url, groundingUri |-> uri]

EventAnswers ==
    {EventAnswer("no text", NoUrl, NoUrl), EventAnswer("not json", NoUrl, NoUrl),
     EventAnswer("throws", NoUrl, NoUrl)}
    \cup {EventAnswer("json", url, uri) :
             url \in {NoUrl, Url(<<>>), UrlHttps, Url(<<"w", "w", "w", ".">>)},
             uri \in {NoUrl, UrlHttps}}

\* !u for a string or undefined
NoText(u) == ~u.defined \/ u.text = <<>>

NullEvent == [null |-> TRUE, url |-> NoUrl]
EventWith(url) == [null |-> FALSE, url |-> url]

\* what fetchEvent resolves to; a failed request ends in withRetry's null
FetchEventBody(backend, configured, answer) ==
    IF ~configured \/ answer.kind # "json" THEN NullEvent
    ELSE IF backend = "GeminiProvider"
       THEN LET finalUrl == IF NoText(answer.sourceUrl) /\ answer.groundingUri.defined
                               THEN answer.groundingUri ELSE answer.sourceUrl
            IN  IF NoText(finalUrl) \/ Len(finalUrl.text) < 5 THEN NullEvent
                ELSE EventWith(finalUrl)
       ELSE EventWith(IF NoText(answer.sourceUrl) THEN NoUrl ELSE answer.sourceUrl)

\* data.impact of the answer, in thousandths: a number, or undefined
Impact(value) == [defined |-> TRUE, value |-> value]
NoImpact == [defined |-> FALSE, value |-> 0]

AnswerImpacts == {NoImpact, Impact(0), Impact(1000), Impact(5000), Impact(0 - 2000)}

\* impact || 0.5
OrHalf(impact) == IF ~impact.defined \/ impact.value = 0 THEN Impact(500) ELSE impact

\* the impact field of the event each backend's fetchEvent returns
EventImpact(backend, impact) ==
    CASE backend = "GeminiProvider" -> impact
      [] backend = "OllamaProvider" -> OrHalf(impact)
      [] backend = "FreeApiProvider" ->
            LET v == OrHalf(impact).value
                atLeast == IF v < 100 THEN 100 ELSE v
            IN  Impact(IF atLeast > 3000 THEN 3000 ELSE atLeast)

NoRoute == [selected |-> NoProvider, served |-> "unset"]

EventInit == feCalls = <<>> /\ tickRoute = NoRoute

\* fetchEvent(politician, sources) of a provider, from call to settlement
FetchEvent ==
    /\ Len(feCalls) < MaxEventCalls
    /\ \E backend \in HistoryBackends, configured \in BOOLEAN, answer \in EventAnswers,
          impact \in AnswerImpacts :
        /\ (backend # "GeminiProvider") => ~answer.groundingUri.defined
        /\ (answer.kind # "json") => impact = NoImpact
        /\ feCalls' = Append(feCalls, [backend |-> backend, configured |-> configured,
                                       answer |-> answer,
                                       result |-> FetchEventBody(backend, configured, answer),
                                       impact |-> impact,
                                       resultImpact |-> EventImpact(backend, impact)])
    /\ UNCHANGED tickRoute

\* one entity of runHourlyFetch: fetchAIEvent (the code of GeminiProvider's
\* fetchEvent, keyed by process.env.API_KEY), and the NewsEvent the tick
\* builds from its result and hands to addFeedEvent
TickEvent ==
    /\ Len(feCalls) < MaxEventCalls
    /\ \E hasEnvKey \in BOOLEAN, answer \in EventAnswers, impact \in AnswerImpacts :
        /\ (answer.kind # "json") => impact = NoImpact
        /\ feCalls' = Append(feCalls,
                [backend |-> "fetchAIEvent", configured |-> hasEnvKey, answer |-> answer,
                 result |-> FetchEventBody("GeminiProvider", hasEnvKey, answer),
                 impact |-> impact,
                 resultImpact |-> OrHalf(EventImpact("GeminiProvider", impact))])
    /\ UNCHANGED tickRoute

EventFrame == UNCHANGED <<rtVars, gpVars, dbVars, schedVars, fhVars, appVars, dsVars, mxVars>>

EventNext ==
    \/ FetchEvent /\ EventFrame
    \/ TickEvent /\ EventFrame

(* The fetch of a scheduler tick: fetchAIEvent of geminiService *)

\* the backend fetchAIEvent(politician, sources) sends its request to: Gemini
\* with process.env.API_KEY, or none (it returns null) when that key is unset
FetchAIEvent(hasEnvKey) == IF hasEnvKey THEN "GeminiProvider" ELSE "none"

\* runHourlyFetch: `await fetchAIEvent(politician, this.sources)` for one
\* entity, the instance getProvider returned last being cachedProvider
TickFetch ==
    /\ \E hasEnvKey \in BOOLEAN :
          tickRoute' = [selected |-> cachedProvider, served |-> FetchAIEvent(hasEnvKey)]
    /\ UNCHANGED <<feCalls, gpVars>>
    /\ UNCHANGED <<rtVars, dbVars, schedVars, fhVars, appVars, dsVars, mxVars>>

RouteNext ==
    \/ GetProvider /\ ProviderFrame
    \/ TickFetch

\* C20: every per-entity fetch of a scheduler tick is served by the backend
\* of the instance getProvider returned for the current ProviderConfig; once
\* the configuration selects another backend, the next fetch goes there.
C20_TickFetchUsesActiveProvider ==
    (tickRoute.served # "unset" /\ tickRoute.selected # NoProvider) =>
        LET kind == tickRoute.selected.kind
        IN  \/ tickRoute.served = kind
            \/ kind \in {"FreeApiProvider:huggingface", "FreeApiProvider:openrouter"}
                  /\ tickRoute.served = "FreeApiProvider"

(* Properties of fetchEvent and of the points of fetchHistory *)

\* a text that stands for a URL: an http(s) address
ValidUrl(u) == u.defined /\ StartsWith(u.text, <<"h", "t", "t", "p">>)

\* C13: for every backend, every non-null result of fetchEvent carries a
\* provenance URL (a non-empty text), and every point of a series fetchHistory
\* resolved to carries a syntactically valid one.
C13_ProvenanceMandatory ==
    /\ \A k \in 1..Len(feCalls) :
          ~feCalls[k].result.null => ~NoText(feCalls[k].result.url)
    /\ Resolved =>
          \A k \in 1..Len(fhResult.points) : ValidUrl(fhResult.points[k].sourceUrl)

\* the single-event range 0.1 to 3.0 and the historical range -5.0 to +5.0
InEventRange(impact) == impact.defined /\ impact.value >= 100 /\ impact.value <= 3000

InHistoryRange(value) == value >= 0 - 5000 /\ value <= 5000

\* C23: the impact of every event a backend's fetchEvent returned, and of
\* every event a scheduler tick persisted, is a number in the single-event
\* range 0.1 to 3.0; every impact fetchHistory folded into a score lies in
\* the historical range -5.0 to +5.0.
C23_ImpactClamped ==
    /\ \A k \in 1..Len(feCalls) :
          ~feCalls[k].result.null => InEventRange(feCalls[k].resultImpact)
    /\ Resolved =>
          \A k \in 1..Len(fhRaw) :
              KeepsEvent(fhBackend, fhRaw[k], fhCutoff) =>
                  InHistoryRange(ImpactAdded(fhBackend, fhRaw[k]))

-----------------------------------------------------------------------------
(* Application state: scores and histories *)

MaxAppOps == 2

InitialScore == 100
PlaceholderPoints == 15
HistoryCap == 50
AppFeedCap == 50

NoCandidate == ""

\* arr.slice(-n)
LastN(seq, n) == IF Len(seq) <= n THEN seq ELSE SubSeq(seq, Len(seq) - n + 1, Len(seq))

\* Array(15).fill({ time: '', score: 100 })
PlaceholderHistory ==
    [i \in 1..PlaceholderPoints |-> HistoryItem(EmptyDate, Thousandths(InitialScore), NoUrl)]

\* an entity as INITIAL_POLITICIANS and CandidateManager.handleAdd build it
NewEntity(id) ==
    [id |-> id, name |-> IF id = "1" THEN "William Ruto" ELSE "New Candidate",
     score |-> Thousandths(InitialScore), history |-> PlaceholderHistory]

InitialPoliticians == <<NewEntity("1")>>

CandidateIds == {"c-1"}

EntityIds == {"1"} \cup CandidateIds

\* the answers a backend gives to the application's fetchHistory calls; the
\* last one holds an event dated tomorrow
AppAnswers ==
    {<<>>,
     <<RawEvent(DateStr(4), 1004, UrlHttps), RawEvent(DateStr(3), 0 - 2500, UrlHttps),
       RawEvent(DateStr(1), 2000, UrlHttps)>>,
     <<RawEvent(DateStr(5), 1000, UrlHttps), RawEvent(DateStr(3), 4, UrlHttp)>>}

\* the series built from an answer of HistoryCap events of today, each with
\* an impact of 0.004
LongSeries ==
    [k \in 1..HistoryCap |->
        HistoryItem(DateStr(4), Round2(Thousandths(BaselineScore) + 4 * k), UrlHttp)]

\* what provider.fetchHistory(pol, config.historyWindowDays) may resolve to
HistoryResults ==
    {NullHistory, Series(LongSeries)} \cup
    {Series(BuildHistory(backend, raw, DaysBefore(clock, days))) :
        backend \in {"GeminiProvider", "OllamaProvider"}, raw \in AppAnswers,
        days \in WindowChoices}

\* live events: sentiment, impact (aiData.impact || 0.5), url
Sentiments == {"positive", "negative", "neutral"}
EventImpacts == {1236}
NewsEvent(id, sentiment, impact) ==
    [politicianId |-> id, sentiment |-> sentiment, impact |-> impact, url |-> UrlHttps]

\* the updater the three reconstructions pass to setPoliticians
ApplyHistoryKeepsScore(prev, id, result) ==
    LET usable == ~result.null /\ Len(result.points) > 0
    IN  [i \in DOMAIN prev |->
            IF prev[i].id = id
               THEN [prev[i] EXCEPT !.history = IF usable THEN result.points ELSE @]
               ELSE prev[i]]

ApplyHistory(prev, id, result) ==
    LET usable == ~result.null /\ Len(result.points) > 0
    IN  [i \in DOMAIN prev |->
            IF prev[i].id = id
               THEN [prev[i] EXCEPT
                        !.history = IF usable THEN result.points ELSE @,
                        !.score = IF usable
                                     THEN result.points[Len(result.points)].score ELSE @]
               ELSE prev[i]]

\* the updater processEvent passes to setPoliticians
ApplyEvent(prevPols, event) ==
    [i \in DOMAIN prevPols |->
        LET p == prevPols[i]
            change == CASE event.sentiment = "positive" -> event.impact
                        [] event.sentiment = "negative" -> 0 - event.impact
                        [] OTHER -> 0
            newScore == Round2(p.score + change)
            newHistoryItem == HistoryItem(DateStr(clock \div 2), newScore, event.url)
        IN  IF p.id # event.politicianId THEN p
            ELSE [p EXCEPT !.score = newScore,
                           !.history = LastN(Append(p.history, newHistoryItem), HistoryCap)]]

\* the persistence effects that run after a render with new `politicians`
\* and `feed`: database.setPoliticians(politicians), database.setFeed(feed)
\* (their saves leave the tiers as one save of the final mirror does)
PersistenceEffects ==
    /\ StoreApply([db EXCEPT !.politicians = appPoliticians', !.feed = appFeed'])
    /\ UNCHANGED <<dbOps, lastOp>>

\* no state update: nothing is rendered, no effect runs
NoRender == UNCHANGED <<appPoliticians, appFeed, dbVars>>

\* setPoliticians(prev => prev.map(...)) of the three reconstructions
SetHistory(id, result) ==
    /\ appPoliticians' = ApplyHistory(appPoliticians, id, result)
    /\ UNCHANGED appFeed
    /\ PersistenceEffects

\* processEvent(event)
ProcessEvent(event) ==
    /\ appFeed' = Take(<<event>> \o appFeed, AppFeedCap)
    /\ appPoliticians' = ApplyEvent(appPoliticians, event)
    /\ PersistenceEffects

\* mount: useState initialisers, then loadHistoricalContext() awaits its first entity
AppInit ==
    /\ appPoliticians = InitialPoliticians
    /\ appFeed = <<>>
    /\ backfillIdx = 1
    /\ addsPending = {}
    /\ addsUsed = {}
    /\ refreshingCandidateId = NoCandidate
    /\ refreshPc = "none"
    /\ appOps = 0

\* loadHistoricalContext: the fetches of one target settle (or throw)
BackfillSettles ==
    /\ backfillIdx <= Len(InitialPoliticians)
    /\ \/ \E result \in HistoryResults :
            SetHistory(InitialPoliticians[backfillIdx].id, result)
       \/ NoRender
    /\ backfillIdx' = backfillIdx + 1
    /\ UNCHANGED <<addsPending, addsUsed, refreshingCandidateId, refreshPc, appOps>>

\* handleAddCandidate up to its await (no await when no provider is configured)
AddCandidate ==
    /\ appOps < MaxAppOps
    /\ \E id \in CandidateIds \ addsUsed :
        /\ appPoliticians' = Append(appPoliticians, NewEntity(id))
        /\ addsUsed' = addsUsed \cup {id}
        /\ \E isConfigured \in BOOLEAN :
            addsPending' = IF isConfigured THEN addsPending \cup {id} ELSE addsPending
    /\ UNCHANGED appFeed
    /\ PersistenceEffects
    /\ appOps' = appOps + 1
    /\ UNCHANGED <<backfillIdx, refreshingCandidateId, refreshPc>>

\* handleAddCandidate after its await: the update, or the catch
AddSettles ==
    /\ \E id \in addsPending :
        /\ \/ \E result \in HistoryResults : SetHistory(id, result)
           \/ NoRender
        /\ addsPending' = addsPending \ {id}
    /\ UNCHANGED <<backfillIdx, addsUsed, refreshingCandidateId, refreshPc, appOps>>

\* handleDeleteCandidate(id)
DeleteCandidate ==
    /\ appOps < MaxAppOps
    /\ \E i \in DOMAIN appPoliticians :
        LET Other(p) == p.id # appPoliticians[i].id
        IN  appPoliticians' = SelectSeq(appPoliticians, Other)
    /\ UNCHANGED appFeed
    /\ PersistenceEffects
    /\ appOps' = appOps + 1
    /\ UNCHANGED <<backfillIdx, addsPending, addsUsed, refreshingCandidateId, refreshPc>>

\* handleRefreshCandidate(id) up to its first await
RefreshCandidate ==
    /\ appOps < MaxAppOps
    /\ refreshingCandidateId = NoCandidate
    /\ \E i \in DOMAIN appPoliticians : \E isConfigured \in BOOLEAN :
        IF isConfigured
           THEN /\ refreshingCandidateId' = appPoliticians[i].id
                /\ refreshPc' = "event"
           ELSE UNCHANGED <<refreshingCandidateId, refreshPc>>
    /\ NoRender
    /\ appOps' = appOps + 1
    /\ UNCHANGED <<backfillIdx, addsPending, addsUsed>>

\* handleRefreshCandidate: fetchRealNewsEvent settles with a headline, with
\* nothing, or throws
RefreshEventSettles ==
    /\ refreshPc = "event"
    /\ \/ \E sentiment \in Sentiments, impact \in EventImpacts :
            /\ ProcessEvent(NewsEvent(refreshingCandidateId, sentiment, impact))
            /\ refreshPc' = "history"
            /\ UNCHANGED refreshingCandidateId
       \/ /\ refreshPc' = "history"
          /\ UNCHANGED refreshingCandidateId
          /\ NoRender
       \/ /\ refreshPc' = "none"
          /\ refreshingCandidateId' = NoCandidate
          /\ NoRender
    /\ UNCHANGED <<backfillIdx, addsPending, addsUsed, appOps>>

\* handleRefreshCandidate: fetchHistory and fetchImage settle (or throw)
RefreshHistorySettles ==
    /\ refreshPc = "history"
    /\ \/ \E result \in HistoryResults : SetHistory(refreshingCandidateId, result)
       \/ NoRender
    /\ refreshPc' = "none"
    /\ refreshingCandidateId' = NoCandidate
    /\ UNCHANGED <<backfillIdx, addsPending, addsUsed, appOps>>

\* runSimulationStep: fetchRealNewsEvent for the entity it picked resolved
\* with a headline
LiveEvent ==
    /\ appOps < MaxAppOps
    /\ \E id \in EntityIds, sentiment \in Sentiments, impact \in EventImpacts :
        ProcessEvent(NewsEvent(id, sentiment, impact))
    /\ appOps' = appOps + 1
    /\ UNCHANGED <<backfillIdx, addsPending, addsUsed, refreshingCandidateId, refreshPc>>

AppFrame == UNCHANGED <<rtVars, gpVars, schedVars, fhVars, feVars, dsVars, mxVars>>

AppNext ==
    \/ BackfillSettles /\ AppFrame
    \/ AddCandidate /\ AppFrame
    \/ AddSettles /\ AppFrame
    \/ DeleteCandidate /\ AppFrame
    \/ RefreshCandidate /\ AppFrame
    \/ RefreshEventSettles /\ AppFrame
    \/ RefreshHistorySettles /\ AppFrame
    \/ LiveEvent /\ AppFrame

(* Properties of the application state *)

\* C6: whatever reconstructions (backfill, add-candidate, refresh) and live
\* events have been applied, in whatever order, every entity with a
\* non-empty history has the score of the last point of its history.
C6_ScoreIsLastHistoryPoint ==
    \A i \in DOMAIN appPoliticians :
        LET p == appPoliticians[i]
        IN  p.history # <<>> => p.score = p.history[Len(p.history)].score

\* an entity whose history was rebuilt to the cap and then took a live event
\* that moved its score: the oldest point was dropped
C6_Witness ==
    \E i \in DOMAIN appPoliticians :
        LET p == appPoliticians[i]
        IN  /\ Len(p.history) = HistoryCap
            /\ p.history[1].time = DateStr(4)
            /\ p.history[HistoryCap].sourceUrl = UrlHttps
            /\ p.history[HistoryCap - 1].sourceUrl = UrlHttp
            /\ p.history[HistoryCap].score # p.history[HistoryCap - 1].score
            /\ p.score # Thousandths(InitialScore)

\* the history holds no placeholder point: a reconstruction replaced it
Reconstructed(p) ==
    p.history # <<>> /\ \A k \in 1..Len(p.history) : p.history[k].time # EmptyDate

\* C14: the points of every entity whose history was reconstructed by
\* fetchHistory, whatever live events processEvent appended afterwards, carry
\* dates that are non-decreasing from first to last.
C14_HistoryDatesNonDecreasing ==
    \A i \in DOMAIN appPoliticians :
        LET h == appPoliticians[i].history
        IN  Reconstructed(appPoliticians[i]) =>
                \A k \in 1..(Len(h) - 1) :
                    /\ ~IsNaN(NewDate(h[k].time))
                    /\ ~IsNaN(NewDate(h[k + 1].time))
                    /\ NewDate(h[k].time).time <= NewDate(h[k + 1].time).time

-----------------------------------------------------------------------------
(* Analytics: the metrics functions over a history *)

MaxPoints == 30
MaxPlaceholders == 2

\* a HistoryItem as the metrics read it: time, score (whole points), sentiment
Point(time, score, sentiment) == [time |-> time, score |-> score, sentiment |-> sentiment]

\* { time: '', score: 100 }: a point the application fills a new history with
Placeholder == Point("", 100, "undefined")

\* the dated points that may follow: a first score, then a constant step
FirstScores == {100, 98}
ScoreSteps == {0 - 1, 0, 1}

Abs(x) == IF x < 0 THEN 0 - x ELSE x

\* Math.max(lo, Math.min(hi, x))
ClampTo(lo, hi, x) == IF x < lo THEN lo ELSE IF x > hi THEN hi ELSE x

\* a / b to the nearest unit, halves away from zero (toFixed), for b > 0
RoundDiv(a, b) ==
    IF a >= 0 THEN (2 * a + b) \div (2 * b) ELSE 0 - ((2 * (0 - a) + b) \div (2 * b))

\* Math.sqrt(x), to the unit below
RECURSIVE SqrtIn(_, _, _)
SqrtIn(lo, hi, x) ==
    IF hi - lo <= 1 THEN lo
    ELSE LET mid == (lo + hi) \div 2
         IN  IF mid * mid <= x THEN SqrtIn(mid, hi, x) ELSE SqrtIn(lo, mid, x)

Sqrt(x) == SqrtIn(0, 46340, x)

\* arr.reduce((a, b) => a + b, 0)
RECURSIVE ReduceSum(_)
ReduceSum(arr) == IF arr = <<>> THEN 0 ELSE Head(arr) + ReduceSum(Tail(arr))

\* history.map(h => h.score)
ScoresOf(history) == [k \in 1..Len(history) |-> history[k].score]

Squares(scores) == [k \in 1..Len(scores) |-> scores[k] * scores[k]]

\* h => h.time
HasTime(h) == h.time # ""

\* results are counted in hundredths (trend strength in thousandths,
\* confidence and the sentiment shares in tenths)

\* calculateVolatility(history): the standard deviation of the dated scores
CalculateVolatility(history) ==
    IF Len(history) < 2 THEN 0
    ELSE LET scores == ScoresOf(SelectSeq(history, HasTime))
             n == Len(scores)
             sum == ReduceSum(scores)
         IN  IF n < 2 THEN 0
             ELSE Sqrt((10000 * (n * ReduceSum(Squares(scores)) - sum * sum)) \div (n * n))

\* calculateMomentum(history): mean of the last 7 dated scores minus the mean
\* of the 7 before them
CalculateMomentum(history) ==
    IF Len(history) < 7 THEN 0
    ELSE LET validHistory == ScoresOf(SelectSeq(history, HasTime))
             n == Len(validHistory)
         IN  IF n < 14 THEN 0
             ELSE RoundDiv(100 * (ReduceSum(SubSeq(validHistory, n - 6, n))
                                    - ReduceSum(SubSeq(validHistory, n - 13, n - 7))), 7)

\* the sums of the least-squares loops, x running from 0 to n-1
SumX(n) == (n * (n - 1)) \div 2
SumX2(n) == ((n - 1) * n * (2 * n - 1)) \div 6
SumXY(scores) == ReduceSum([k \in 1..Len(scores) |-> (k - 1) * scores[k]])

\* n * sumXY - sumX * sumY and n * sumX2 - sumX * sumX: slope is their quotient
SlopeOver(scores) == Len(scores) * SumXY(scores) - SumX(Len(scores)) * ReduceSum(scores)
SlopeUnder(n) == n * SumX2(n) - SumX(n) * SumX(n)

Infinity == "Infinity"

\* calculateTrendStrength(history): |slope * rSquared|, rSquared being
\* (over / Math.sqrt(under * spread))^2 || 0, and NaN when the root is taken of
\* a negative number (under is positive from two points on)
CalculateTrendStrength(history) ==
    IF Len(history) < 7 THEN 0
    ELSE LET scores == ScoresOf(LastN(history, 14))
             n == Len(scores)
             sumY == ReduceSum(scores)
             over == SlopeOver(scores)
             under == SlopeUnder(n)
             spread == (n * ReduceSum(Squares(scores)) - sumY * sumY) - sumY * sumY
         IN  IF n < 7 THEN 0
             ELSE IF spread < 0 \/ (spread = 0 /\ over = 0) THEN 0
             ELSE IF spread = 0 THEN Infinity
             ELSE RoundDiv(1000 * Abs(over * over * over), under * under * spread)

DefaultPrediction == [nextWeek |-> 10000, confidence |-> 0, trend |-> "stable"]

\* calculatePrediction(history): the least-squares line through the last 14
\* scores, read 7 steps ahead; residuals are carried in hundredths
CalculatePrediction(history) ==
    IF Len(history) < 7 THEN DefaultPrediction
    ELSE LET recentScores == ScoresOf(LastN(history, 14))
             n == Len(recentScores)
             sumY == ReduceSum(recentScores)
             over == SlopeOver(recentScores)
             under == SlopeUnder(n)
             predicted == RoundDiv(100 * (sumY * under + over * (n * (n + 7) - SumX(n))),
                                   n * under)
             residuals ==
                 [k \in 1..n |->
                     RoundDiv(100 * (recentScores[k] * n * under - sumY * under
                                       + over * SumX(n) - over * (k - 1) * n),
                              n * under)]
             rmse == Sqrt(ReduceSum(Squares(residuals)) \div n)
         IN  [nextWeek |-> ClampTo(8000, 12000, predicted),
              confidence |-> ClampTo(0, 1000, RoundDiv(10000 - rmse, 10)),
              trend |-> IF 2 * over > under THEN "rising"
                        ELSE IF 2 * over < 0 - under THEN "falling" ELSE "stable"]

CalculateSMAOfWhatIsThere(history, period) ==
    LET scores == LastN(ScoresOf(history), period)
    IN  IF scores = <<>> THEN 10000 ELSE RoundDiv(100 * ReduceSum(scores), Len(scores))

\* calculateSMA(history, period)
CalculateSMA(history, period) ==
    LET scores == LastN(ScoresOf(history), period)
    IN  IF Len(scores) < period
           THEN IF Len(history) > 0 THEN 100 * history[Len(history)].score ELSE 10000
           ELSE RoundDiv(100 * ReduceSum(scores), period)

\* the loop of calculateEMA after the first k scores, carried to four decimals
RECURSIVE EmaAfter(_, _, _)
EmaAfter(scores, k, period) ==
    IF k = 1 THEN 10000 * scores[1]
    ELSE LET ema == EmaAfter(scores, k - 1, period)
         IN  ema + RoundDiv(2 * (10000 * scores[k] - ema), period + 1)

\* calculateEMA(history, period)
CalculateEMA(history, period) ==
    LET scores == ScoresOf(history)
    IN  IF Len(scores) = 0 THEN 10000
        ELSE RoundDiv(EmaAfter(scores, Len(scores), period), 100)

\* calculateSentimentBreakdown(history)
CalculateSentimentBreakdown(history) ==
    LET Count(Is(_)) == Len(SelectSeq(history, Is))
        IsPositive(h) == h.sentiment = "positive"
        IsNegative(h) == h.sentiment = "negative"
        IsOther(h) == h.sentiment \notin {"positive", "negative"}
        total == Count(IsPositive) + Count(IsNegative) + Count(IsOther)
    IN  IF total = 0 THEN [positive |-> 0, negative |-> 0, neutral |-> 0]
        ELSE [positive |-> RoundDiv(1000 * Count(IsPositive), total),
              negative |-> RoundDiv(1000 * Count(IsNegative), total),
              neutral |-> RoundDiv(1000 * Count(IsOther), total)]

\* calculateAllMetrics(politician, feed, sources): the metrics of the history
CalculateAllMetricsOf(history) ==
    [computed |-> TRUE,
     history |-> history,
     volatility |-> CalculateVolatility(history),
     momentum |-> CalculateMomentum(history),
     trendStrength |-> CalculateTrendStrength(history),
     prediction |-> CalculatePrediction(history),
     sma7 |-> CalculateSMA(history, 7),
     sma14 |-> CalculateSMA(history, 14),
     sma30 |-> CalculateSMA(history, 30),
     ema12 |-> CalculateEMA(history, 12),
     sentimentBreakdown |-> CalculateSentimentBreakdown(history)]

NoMetrics == [computed |-> FALSE]

MetricsInit == mxHistory = <<>> /\ mxMetrics = NoMetrics

\* the history gains a point: a placeholder while it holds nothing else, or a
\* dated point whose score continues the steps of the dated points before it
HistoryGrows ==
    /\ Len(mxHistory) < MaxPoints
    /\ LET dated == SelectSeq(mxHistory, HasTime)
           d == Len(dated)
       IN  \/ /\ d = 0
              /\ Len(mxHistory) < MaxPlaceholders
              /\ mxHistory' = Append(mxHistory, Placeholder)
           \/ \E score \in 60..140 :
                 LET step == IF d = 0 THEN 0 ELSE score - dated[d].score
                 IN  /\ d = 0 => score \in FirstScores
                     /\ d = 1 => step \in ScoreSteps
                     /\ d >= 2 => step = dated[d].score - dated[d - 1].score
                     /\ mxHistory' =
                           Append(mxHistory,
                                  Point("2026-01-01", score,
                                        IF step > 0 THEN "positive"
                                        ELSE IF step < 0 THEN "negative" ELSE "neutral"))
    /\ mxMetrics' = NoMetrics

\* calculateAllMetrics is called with the history
CalculateAllMetrics ==
    /\ ~mxMetrics.computed
    /\ mxMetrics' = CalculateAllMetricsOf(mxHistory)
    /\ UNCHANGED mxHistory

MetricsFrame == UNCHANGED <<rtVars, gpVars, dbVars, schedVars, fhVars, appVars, feVars, dsVars>>

MetricsNext ==
    \/ HistoryGrows /\ MetricsFrame
    \/ CalculateAllMetrics /\ MetricsFrame

(* Properties of the metrics *)

\* C25: on an empty or too-short history every metric is its default:
\* volatility 0 below 2 points, momentum 0 below 14 dated points, trend
\* strength 0 and the prediction {100, 0, stable} below 7 points, each simple
\* moving average the latest score (100 for no point) below its window, the
\* exponential moving average 100 and the sentiment shares 0 for no point.
C25_DegenerateDefaults ==
    mxMetrics.computed =>
        LET history == mxMetrics.history
            n == Len(history)
            latest == IF n = 0 THEN 10000 ELSE 100 * history[n].score
        IN  /\ n < 2 => mxMetrics.volatility = 0
            /\ Len(SelectSeq(history, HasTime)) < 14 => mxMetrics.momentum = 0
            /\ n < 7 => mxMetrics.trendStrength = 0
            /\ n < 7 => mxMetrics.prediction = DefaultPrediction
            /\ n < 7 => mxMetrics.sma7 = latest
            /\ n < 14 => mxMetrics.sma14 = latest
            /\ n < 30 => mxMetrics.sma30 = latest
            /\ n = 0 => mxMetrics.ema12 = 10000
            /\ n = 0 => mxMetrics.sentimentBreakdown
                            = [positive |-> 0, negative |-> 0, neutral |-> 0]

\* two placeholders and thirteen falling dated points: long enough for every
\* window but the 30-point one, one dated point short for the momentum
C25_Witness ==
    /\ mxMetrics.computed
    /\ Len(mxMetrics.history) = 15
    /\ mxMetrics.history[1] = Placeholder
    /\ mxMetrics.history[15].score = 86
    /\ mxMetrics.momentum = 0
    /\ mxMetrics.sma30 = 8600
    /\ mxMetrics.sma14 # 8600
    /\ mxMetrics.prediction.trend = "falling"

-----------------------------------------------------------------------------
(* Source discovery: the discovered-sources collection and runSourceDiscovery *)

MaxScans == 3
MinSeenCountToSuggest == 3

\* domains a scan may observe (tracked and ignored domains are skipped before)
Domains == {"siasa.co.ke", "kura.blog"}

\* the candidates a scan collected, in the order it met them
CandidateLists == {<<>>, <<"siasa.co.ke">>, <<"kura.blog">>, <<"siasa.co.ke", "kura.blog">>}

DiscoveredSource(domain, seenCount, accepted, rejected) ==
    [domain |-> domain, seenCount |-> seenCount, accepted |-> accepted, rejected |-> rejected]

\* the entry a scan builds for a domain it finds no record of
NewDiscovery(domain) == DiscoveredSource(domain, 1, FALSE, FALSE)

\* list.find(s => s.domain === domain): its index, 0 for undefined
FindDomain(list, domain) ==
    IF \E i \in 1..Len(list) : list[i].domain = domain
       THEN CHOOSE i \in 1..Len(list) :
                /\ list[i].domain = domain
                /\ \A j \in 1..(i - 1) : list[j].domain # domain
       ELSE 0

\* the collection after addDiscoveredSource(source)
WithDiscovered(list, source) ==
    LET i == FindDomain(list, source.domain) IN
    IF i # 0 THEN [list EXCEPT ![i].seenCount = @ + 1] ELSE Append(list, source)

\* the body of the scan's loop for one candidate: `entry` is the stored object
\* itself, so entry.seenCount++ changes the collection before
\* addDiscoveredSource(entry) finds that same object and counts again
ScanCandidate(list, domain) ==
    LET i == FindDomain(list, domain) IN
    IF i = 0 THEN WithDiscovered(list, NewDiscovery(domain))
    ELSE IF list[i].rejected \/ list[i].accepted THEN list
    ELSE LET counted == [list EXCEPT ![i].seenCount = @ + 1]
         IN  WithDiscovered(counted, counted[i])

RECURSIVE ScanCandidates(_, _)
ScanCandidates(list, candidates) ==
    IF candidates = <<>> THEN list
    ELSE ScanCandidates(ScanCandidate(list, Head(candidates)), Tail(candidates))

\* the candidates the loop does not `continue` past
Processed(list, candidates) ==
    {d \in {candidates[k] : k \in 1..Len(candidates)} :
        LET i == FindDomain(list, d) IN i = 0 \/ ~(list[i].rejected \/ list[i].accepted)}

\* the domains pushed to newSuggestions: entry.seenCount >= MIN_SEEN_COUNT_TO_SUGGEST
Suggestions(before, after, candidates) ==
    {d \in Processed(before, candidates) :
        after[FindDomain(after, d)].seenCount >= MinSeenCountToSuggest}

NoScan == [n |-> 0, candidates |-> <<>>, suggestions |-> {}, before |-> <<>>]

DiscoveryInit == lastScan = NoScan

\* a public operation that returns without touching the mirror or saving
Untouched(name, arg) ==
    /\ dbOps < MaxStoreOps
    /\ dbOps' = dbOps + 1
    /\ lastOp' = [name |-> name, arg |-> arg, before |-> db, result |-> "void"]
    /\ dbError' = "none"
    /\ UNCHANGED <<db, idb, idbStores, legacyBlob, dbPhase, loadIdx, loadPending, lastSave,
                   tiersFaulty>>

\* addDiscoveredSource(source)
AddDiscoveredSource ==
    /\ \E domain \in Domains :
        Mutate("addDiscoveredSource", domain,
               [db EXCEPT !.discoveredSources = WithDiscovered(@, NewDiscovery(domain))])
    /\ UNCHANGED lastScan

\* markDiscoveredSourceAccepted(domain)
MarkDiscoveredSourceAccepted ==
    /\ \E domain \in Domains :
        LET i == FindDomain(db.discoveredSources, domain) IN
        IF i # 0
           THEN Mutate("markDiscoveredSourceAccepted", domain,
                       [db EXCEPT !.discoveredSources[i].accepted = TRUE])
           ELSE Untouched("markDiscoveredSourceAccepted", domain)
    /\ UNCHANGED lastScan

\* markDiscoveredSourceRejected(domain)
MarkDiscoveredSourceRejected ==
    /\ \E domain \in Domains :
        LET i == FindDomain(db.discoveredSources, domain) IN
        IF i # 0
           THEN Mutate("markDiscoveredSourceRejected", domain,
                       [db EXCEPT !.discoveredSources[i].rejected = TRUE])
           ELSE Untouched("markDiscoveredSourceRejected", domain)
    /\ UNCHANGED lastScan

\* runSourceDiscovery from `await db.waitForReady()` on: the loop over the
\* candidates runs without yielding; every addDiscoveredSource in it saves, and
\* the tiers end as the last of these saves leaves them
RunSourceDiscovery ==
    /\ lastScan.n < MaxScans
    /\ dbPhase = "ready"
    /\ \E candidates \in CandidateLists :
        LET before == db.discoveredSources
            after == ScanCandidates(before, candidates)
        IN  /\ lastScan' = [n |-> lastScan.n + 1, candidates |-> candidates,
                            suggestions |-> Suggestions(before, after, candidates),
                            before |-> before]
            /\ IF Processed(before, candidates) # {}
                  THEN StoreApply([db EXCEPT !.discoveredSources = after])
                  ELSE UNCHANGED <<db, idb, idbStores, legacyBlob, dbPhase, loadIdx,
                                   loadPending, lastSave, dbError, tiersFaulty>>
    /\ UNCHANGED <<dbOps, lastOp>>

DiscoveryFrame == UNCHANGED <<rtVars, gpVars, schedVars, fhVars, appVars, feVars, mxVars>>

DiscoveryNext ==
    \/ AddDiscoveredSource /\ DiscoveryFrame
    \/ MarkDiscoveredSourceAccepted /\ DiscoveryFrame
    \/ MarkDiscoveredSourceRejected /\ DiscoveryFrame
    \/ RunSourceDiscovery /\ DiscoveryFrame

(* Properties of source discovery *)

ScanStep == lastScan'.n = lastScan.n + 1

Terminal(r) == r.accepted \/ r.rejected

\* C22: once a record is accepted or rejected neither of its flags changes
\* again, so no record is ever both accepted and rejected; and a scan never
\* returns the domain of such a record as a suggestion.
C22_FlagsTerminal ==
    [][ /\ \A i \in 1..Len(db.discoveredSources) :
              LET r == db.discoveredSources[i]
                  j == FindDomain(db'.discoveredSources, r.domain)
              IN  Terminal(r) =>
                     /\ j # 0
                     /\ db'.discoveredSources[j].accepted = r.accepted
                     /\ db'.discoveredSources[j].rejected = r.rejected
        /\ \A j \in 1..Len(db'.discoveredSources) :
              ~(db'.discoveredSources[j].accepted /\ db'.discoveredSources[j].rejected)
        /\ ScanStep =>
              \A d \in lastScan'.suggestions :
                  LET i == FindDomain(db.discoveredSources, d)
                  IN  i = 0 \/ ~Terminal(db.discoveredSources[i]) ]_vars

\* C30: a scan that observes a domain with no record creates the record with
\* seenCount 1; a scan that observes a domain whose record is neither accepted
\* nor rejected raises its seenCount by exactly 1; and it suggests the domain
\* exactly when the count has reached 3.
C30_ObservationCount ==
    [][ ScanStep =>
          \A k \in 1..Len(lastScan'.candidates) :
              LET d == lastScan'.candidates[k]
                  i == FindDomain(db.discoveredSources, d)
                  j == FindDomain(db'.discoveredSources, d)
              IN  /\ i = 0 => j # 0 /\ db'.discoveredSources[j].seenCount = 1
                  /\ (i # 0 /\ ~Terminal(db.discoveredSources[i])) =>
                        /\ j = i
                        /\ db'.discoveredSources[j].seenCount
                              = db.discoveredSources[i].seenCount + 1
                  /\ (i = 0 \/ ~Terminal(db.discoveredSources[i])) =>
                        (d \in lastScan'.suggestions
                            <=> db'.discoveredSources[j].seenCount >= MinSeenCountToSuggest) ]_vars

-----------------------------------------------------------------------------
(* Fetch scheduler *)

MaxTicks == 2
MaxTime == 2

NoTimer == 0

\* intervals setFetchInterval is called with, in minutes
IntervalChoices == {2}

TrackedLists ==
    {<<>>, <<Pol("1", "William Ruto"), Pol("2", "Kalonzo Musyoka")>>}

\* the NewsEvent built from a fetched event of a politician: the store keeps
\* feed entries as they are, one entry stands for all of them
NewsEventOf(politician) == "e1"

\* outcomes of `await fetchAIEvent(...)` and the handling of its result
FetchOutcomes == {"event", "none", "throws"}

\* a FetchResult: success, the politicianId of its event, its error
FetchResult(success, politicianId, error) ==
    [success |-> success, event |-> politicianId, error |-> error]

NoTick == [pols |-> <<>>, results |-> <<>>, schedule |-> DefaultFetchSchedule, n |-> 0]

\* constructor field initialisers
SchedulerInit ==
    /\ schedulerInterval = NoTimer
    /\ armedTimers = {}
    /\ fetchIntervalMin = DefaultIntervalMinutes
    /\ isRunning = FALSE
    /\ schedPoliticians = <<>>
    /\ fetchCount = 0
    /\ lastFetchTime = NoTime
    /\ ticks = <<>>
    /\ started = 0
    /\ completed = 0
    /\ lastTrigger = "none"
    /\ timerAtBegin = NoTimer
    /\ lastTick = NoTick
    /\ now = 0

FrameNoStore == UNCHANGED dbVars

\* arr without its i-th element
RemoveAt(seq, i) == SubSeq(seq, 1, i - 1) \o SubSeq(seq, i + 1, Len(seq))

TickEndNoCount(began, minutes, pols, results) ==
    LET schedule ==
            [lastFetchTime |-> began, nextFetchTime |-> began + minutes,
             fetchCount |-> fetchCount, hourlyFetchEnabled |-> TRUE,
             fetchIntervalMinutes |-> minutes]
    IN  /\ UNCHANGED fetchCount
        /\ lastFetchTime' = began
        /\ completed' = completed + 1
        /\ lastTick' = [pols |-> pols, results |-> results, schedule |-> schedule,
                        n |-> completed + 1]
        /\ StoreApply([db EXCEPT !.fetchSchedule = schedule])
        /\ UNCHANGED <<dbOps, lastOp>>

\* the end of runHourlyFetch (after the loop) of a tick that began at `began`
\* and iterated `pols`, this.fetchIntervalMs being `minutes` by then:
\* this.fetchCount++, database.updateFetchSchedule(schedule),
\* this.onScheduleUpdate(schedule), return results
TickEnd(began, minutes, pols, results) ==
    LET schedule ==
            [lastFetchTime |-> began, nextFetchTime |-> began + minutes,
             fetchCount |-> fetchCount + 1, hourlyFetchEnabled |-> TRUE,
             fetchIntervalMinutes |-> minutes]
    IN  /\ fetchCount' = fetchCount + 1
        /\ lastFetchTime' = began
        /\ completed' = completed + 1
        /\ lastTick' = [pols |-> pols, results |-> results, schedule |-> schedule,
                        n |-> completed + 1]
        /\ StoreApply([db EXCEPT !.fetchSchedule = schedule])
        /\ UNCHANGED <<dbOps, lastOp>>

\* runHourlyFetch() up to its first await: with nobody tracked the loop is
\* skipped and the tick ends in the same run
TickBegin(minutes) ==
    /\ started' = started + 1
    /\ IF schedPoliticians = <<>>
          THEN /\ UNCHANGED ticks
               /\ TickEnd(now, minutes, <<>>, <<>>)
          ELSE /\ ticks' = Append(ticks, [began |-> now, pols |-> schedPoliticians,
                                           idx |-> 1, pc |-> "fetch", results |-> <<>>])
               /\ UNCHANGED <<fetchCount, lastFetchTime, completed>>
               /\ lastTick' = NoTick
               /\ FrameNoStore

\* the handle setInterval returns: one no armed timer has
FreshTimerId(timers) ==
    CHOOSE id \in 1..(Cardinality(timers) + 1) : \A t \in timers : t.id # id

\* start(): setInterval(...), then runHourlyFetch()
Start ==
    /\ ~isRunning
    /\ started < MaxTicks
    /\ isRunning' = TRUE
    /\ LET id == FreshTimerId(armedTimers) IN
        /\ schedulerInterval' = id
        /\ armedTimers' = armedTimers \cup
               {[id |-> id, period |-> fetchIntervalMin, next |-> now + fetchIntervalMin]}
    /\ TickBegin(fetchIntervalMin)
    /\ lastTrigger' = "start"
    /\ timerAtBegin' = schedulerInterval'
    /\ UNCHANGED <<fetchIntervalMin, schedPoliticians, now>>

\* start() while running: returns at once
StartWhileRunning ==
    /\ isRunning
    /\ UNCHANGED <<lastTrigger, timerAtBegin>>
    /\ UNCHANGED <<schedulerInterval, armedTimers, fetchIntervalMin, isRunning,
                   schedPoliticians, fetchCount, lastFetchTime, ticks, started, completed, now>>
    /\ lastTick' = NoTick
    /\ FrameNoStore

\* stop()
Stop ==
    /\ armedTimers' = {t \in armedTimers : t.id # schedulerInterval}
    /\ schedulerInterval' = NoTimer
    /\ isRunning' = FALSE
    /\ UNCHANGED <<lastTrigger, timerAtBegin>>
    /\ UNCHANGED <<fetchIntervalMin, schedPoliticians, fetchCount,
                   lastFetchTime, ticks, started, completed, now>>
    /\ lastTick' = NoTick
    /\ FrameNoStore

\* updatePoliticians(politicians)
UpdatePoliticians ==
    /\ \E list \in TrackedLists : schedPoliticians' = list
    /\ UNCHANGED <<lastTrigger, timerAtBegin>>
    /\ UNCHANGED <<schedulerInterval, armedTimers, fetchIntervalMin, isRunning,
                   fetchCount, lastFetchTime, ticks, started, completed, now>>
    /\ lastTick' = NoTick
    /\ FrameNoStore

\* setFetchInterval(minutes) while stopped
SetFetchIntervalStopped ==
    /\ ~isRunning
    /\ \E minutes \in IntervalChoices : fetchIntervalMin' = minutes
    /\ UNCHANGED <<lastTrigger, timerAtBegin>>
    /\ UNCHANGED <<schedulerInterval, armedTimers, isRunning, schedPoliticians, fetchCount,
                   lastFetchTime, ticks, started, completed, now>>
    /\ lastTick' = NoTick
    /\ FrameNoStore

SetFetchIntervalNoStop ==
    /\ isRunning
    /\ started < MaxTicks
    /\ \E minutes \in IntervalChoices :
        /\ fetchIntervalMin' = minutes
        /\ LET id == FreshTimerId(armedTimers)
           IN  /\ schedulerInterval' = id
               /\ armedTimers' = armedTimers \cup
                      {[id |-> id, period |-> minutes, next |-> now + minutes]}
        /\ TickBegin(minutes)
    /\ lastTrigger' = "start"
    /\ timerAtBegin' = schedulerInterval'
    /\ UNCHANGED <<isRunning, schedPoliticians, now>>

\* setFetchInterval(minutes) while running: stop(), then start(), in the same
\* run; start() reads the new this.fetchIntervalMs
SetFetchIntervalRunning ==
    /\ isRunning
    /\ started < MaxTicks
    /\ \E minutes \in IntervalChoices :
        /\ fetchIntervalMin' = minutes
        /\ LET stopped == {t \in armedTimers : t.id # schedulerInterval}
               id == FreshTimerId(stopped)
           IN  /\ schedulerInterval' = id
               /\ armedTimers' = stopped \cup
                      {[id |-> id, period |-> minutes, next |-> now + minutes]}
        /\ TickBegin(minutes)
    /\ lastTrigger' = "start"
    /\ timerAtBegin' = schedulerInterval'
    /\ UNCHANGED <<isRunning, schedPoliticians, now>>

\* an armed timer comes due: its callback calls runHourlyFetch()
TimerFires ==
    /\ started < MaxTicks
    /\ \E t \in armedTimers :
        /\ now >= t.next
        /\ armedTimers' = (armedTimers \ {t}) \cup {[t EXCEPT !.next = t.next + t.period]}
    /\ TickBegin(fetchIntervalMin)
    /\ lastTrigger' = "timer"
    /\ timerAtBegin' = schedulerInterval
    /\ UNCHANGED <<schedulerInterval, fetchIntervalMin, isRunning, schedPoliticians, now>>

\* fetchNow(): return this.runHourlyFetch()
FetchNow ==
    /\ started < MaxTicks
    /\ TickBegin(fetchIntervalMin)
    /\ lastTrigger' = "fetchNow"
    /\ timerAtBegin' = schedulerInterval
    /\ UNCHANGED <<schedulerInterval, armedTimers, fetchIntervalMin, isRunning,
                   schedPoliticians, now>>

\* the loop of runHourlyFetch moves past entity idx of tick i: on to the next
\* entity's fetch, or past the loop to the end of the tick
TickAdvance(i, results) ==
    LET tick == ticks[i] IN
    IF tick.idx < Len(tick.pols)
       THEN /\ ticks' = [ticks EXCEPT ![i] = [tick EXCEPT !.idx = tick.idx + 1, !.pc = "fetch",
                                                           !.results = results]]
            /\ UNCHANGED <<fetchCount, lastFetchTime, completed>>
            /\ lastTick' = NoTick
            /\ FrameNoStore
       ELSE /\ ticks' = RemoveAt(ticks, i)
            /\ TickEnd(tick.began, fetchIntervalMin, tick.pols, results)

FetchSettlesThrowAborts ==
    /\ \E i \in 1..Len(ticks) : \E outcome \in FetchOutcomes :
        LET tick == ticks[i]
            politician == tick.pols[tick.idx]
            Pushed(r) == [tick EXCEPT !.pc = "delay", !.results = Append(@, r)]
        IN  /\ tick.pc = "fetch"
            /\ CASE outcome = "event" ->
                      /\ ticks' = [ticks EXCEPT ![i] = Pushed(FetchResult(TRUE, politician.id, "none"))]
                      /\ StoreApply([db EXCEPT !.feed =
                                        Take(<<NewsEventOf(politician)>> \o @, FeedCap)])
                      /\ UNCHANGED <<dbOps, lastOp, fetchCount, lastFetchTime, completed>>
                      /\ lastTick' = NoTick
                 [] outcome = "none" ->
                      /\ ticks' = [ticks EXCEPT ![i] = Pushed(FetchResult(FALSE, "", "No event found"))]
                      /\ UNCHANGED <<fetchCount, lastFetchTime, completed>>
                      /\ lastTick' = NoTick
                      /\ FrameNoStore
                 [] outcome = "throws" ->
                      /\ ticks' = RemoveAt(ticks, i)
                      /\ UNCHANGED <<fetchCount, lastFetchTime, completed>>
                      /\ lastTick' = NoTick
                      /\ FrameNoStore
    /\ UNCHANGED <<schedulerInterval, armedTimers, fetchIntervalMin, isRunning,
                   schedPoliticians, started, lastTrigger, timerAtBegin, now>>

\* `await fetchAIEvent(politician, sources)` of a tick settles: an event
\* (addFeedEvent, results.push, then the 2000 ms pause), nothing (results.push,
\* the pause), or a throw (catch: results.push, straight on to the next entity)
FetchSettles ==
    /\ \E i \in 1..Len(ticks) : \E outcome \in FetchOutcomes :
        LET tick == ticks[i]
            politician == tick.pols[tick.idx]
            Pushed(r) == [tick EXCEPT !.pc = "delay", !.results = Append(@, r)]
        IN  /\ tick.pc = "fetch"
            /\ CASE outcome = "event" ->
                      /\ ticks' = [ticks EXCEPT ![i] = Pushed(FetchResult(TRUE, politician.id, "none"))]
                      /\ StoreApply([db EXCEPT !.feed =
                                        Take(<<NewsEventOf(politician)>> \o @, FeedCap)])
                      /\ UNCHANGED <<dbOps, lastOp, fetchCount, lastFetchTime, completed>>
                      /\ lastTick' = NoTick
                 [] outcome = "none" ->
                      /\ ticks' = [ticks EXCEPT ![i] = Pushed(FetchResult(FALSE, "", "No event found"))]
                      /\ UNCHANGED <<fetchCount, lastFetchTime, completed>>
                      /\ lastTick' = NoTick
                      /\ FrameNoStore
                 [] outcome = "throws" ->
                      TickAdvance(i, Append(tick.results, FetchResult(FALSE, "", "error.message")))
    /\ UNCHANGED <<schedulerInterval, armedTimers, fetchIntervalMin, isRunning,
                   schedPoliticians, started, lastTrigger, timerAtBegin, now>>

\* the 2000 ms pause after an entity's fetch elapses
DelayElapses ==
    /\ \E i \in 1..Len(ticks) :
        /\ ticks[i].pc = "delay"
        /\ TickAdvance(i, ticks[i].results)
    /\ UNCHANGED <<schedulerInterval, armedTimers, fetchIntervalMin, isRunning,
                   schedPoliticians, started, lastTrigger, timerAtBegin, now>>

\* a minute passes; a timer that is due fires before more time passes
ClockAdvances ==
    /\ now < MaxTime
    /\ \A t \in armedTimers : now < t.next
    /\ now' = now + 1
    /\ UNCHANGED <<schedulerInterval, armedTimers, fetchIntervalMin, isRunning,
                   schedPoliticians, fetchCount, lastFetchTime, ticks, started, completed,
                   lastTrigger, timerAtBegin>>
    /\ lastTick' = NoTick
    /\ FrameNoStore

SchedulerFrame == UNCHANGED <<rtVars, gpVars, fhVars, appVars, feVars, dsVars, mxVars>>

SchedulerNext ==
    \/ Start /\ SchedulerFrame
    \/ StartWhileRunning /\ SchedulerFrame
    \/ Stop /\ SchedulerFrame
    \/ UpdatePoliticians /\ SchedulerFrame
    \/ SetFetchIntervalStopped /\ SchedulerFrame
    \/ SetFetchIntervalRunning /\ SchedulerFrame
    \/ TimerFires /\ SchedulerFrame
    \/ FetchNow /\ SchedulerFrame
    \/ FetchSettles /\ SchedulerFrame
    \/ DelayElapses /\ SchedulerFrame
    \/ ClockAdvances /\ SchedulerFrame

\* initialize(politicians, sources, ...) on the loaded store
Initialized ==
    /\ schedulerInterval = NoTimer
    /\ armedTimers = {}
    /\ fetchIntervalMin = DefaultIntervalMinutes
    /\ isRunning = FALSE
    /\ schedPoliticians \in TrackedLists
    /\ fetchCount = db.fetchSchedule.fetchCount
    /\ lastFetchTime = db.fetchSchedule.lastFetchTime
    /\ ticks = <<>>
    /\ started = 0
    /\ completed = 0
    /\ lastTrigger = "none"
    /\ timerAtBegin = NoTimer
    /\ lastTick = NoTick
    /\ now = 0

SchedulerStart ==
    /\ RetryInit
    /\ ProviderInit
    /\ HistoryInit
    /\ EventInit
    /\ AppInit
    /\ StoreReady
    /\ Initialized
    /\ DiscoveryInit
    /\ MetricsInit

-----------------------------------------------------------------------------
(* Properties of the fetch scheduler *)

\* ticks that have run to their end
Finished == started - Len(ticks)

\* the fetch counter of the ScheduleState in the fetch_schedule object store
PersistedFetchCount == idbStores["fetch_schedule"][1].fetchCount

FetchNowStep == lastTrigger' = "fetchNow" /\ started' = started + 1

TimerStep == lastTrigger' = "timer" /\ started' = started + 1

\* the one timer start() armed last, with the configured period
OnlyCurrentTimer(timers, handle, minutes) ==
    \E t \in timers : timers = {t} /\ t.id = handle /\ t.period = minutes

TimersAsConfigured(timers, handle, minutes, running) ==
    IF running THEN handle # NoTimer /\ OnlyCurrentTimer(timers, handle, minutes)
               ELSE timers = {} /\ handle = NoTimer

\* C11: over every sequence of start(), stop() and setFetchInterval(m) (and
\* of ticks, timer fires and fetchNow() between them), exactly one recurring
\* timer is armed while the scheduler is running and none while it is
\* stopped, the armed timer is the one start() armed last and its period is
\* the configured interval (so start() while running has armed no second
\* timer); a timer callback that runs belongs to that timer, never to one an
\* earlier start() armed, and start() while running begins no tick.
C11_TimerInvariant ==
    [][ /\ TimersAsConfigured(armedTimers, schedulerInterval, fetchIntervalMin, isRunning)
        /\ TimersAsConfigured(armedTimers', schedulerInterval', fetchIntervalMin', isRunning')
        /\ TimerStep =>
              \E t \in armedTimers :
                  /\ t.id = schedulerInterval /\ t.period = fetchIntervalMin /\ now >= t.next
                  /\ armedTimers' = {[t EXCEPT !.next = t.next + t.period]}
        /\ (isRunning /\ isRunning' /\ started' = started + 1) =>
              \/ lastTrigger' \in {"timer", "fetchNow"}
              \/ \A t \in armedTimers' : t.next = now + fetchIntervalMin' ]_vars

\* start() at minute 0 with the default period, setFetchInterval(2) at minute
\* 1: the timer armed is the new one, due at minute 3
C11_Witness ==
    /\ isRunning
    /\ lastTrigger = "start"
    /\ started = 2
    /\ now = 1
    /\ fetchIntervalMin = 2
    /\ schedulerInterval # NoTimer
    /\ armedTimers = {[id |-> schedulerInterval, period |-> 2, next |-> 3]}

\* results pushed so far by a tick in progress: one per entity it is past
ResultsSoFar(tick) == IF tick.pc = "fetch" THEN tick.idx - 1 ELSE tick.idx

\* a result of entity p: a success carrying p's event, or a failure
ResultOf(r, p) ==
    \/ r.success /\ r.event = p.id /\ r.error = "none"
    \/ ~r.success /\ r.event = "" /\ r.error \in {"No event found", "error.message"}

TickEnds == completed' = completed + 1

\* C12: a tick in progress has pushed exactly one FetchResult for each entity
\* it is past, and a tick that ends returns exactly one FetchResult per entity
\* that was tracked when it began, in iteration order (the k-th is a success
\* with the k-th entity's event or a failure); a fetch that returns nothing or
\* raises leaves a failure result and the tick in progress or ended, never
\* aborted; the step that ends a tick writes the ScheduleState and hands the
\* same ScheduleState to the schedule-update callback.
C12_OneResultPerEntity ==
    [][ /\ \A i \in 1..Len(ticks') :
              /\ Len(ticks'[i].results) = ResultsSoFar(ticks'[i])
              /\ ticks'[i].idx \in 1..Len(ticks'[i].pols)
        /\ Finished' >= Finished
        /\ Finished' = completed'
        /\ TickEnds =>
              /\ Len(lastTick'.results) = Len(lastTick'.pols)
              /\ \A k \in 1..Len(lastTick'.pols) : ResultOf(lastTick'.results[k], lastTick'.pols[k])
              /\ \/ Len(ticks') = Len(ticks) /\ lastTick'.pols = schedPoliticians
                 \/ \E i \in 1..Len(ticks) :
                        /\ ticks' = RemoveAt(ticks, i)
                        /\ lastTick'.pols = ticks[i].pols
                        /\ SubSeq(lastTick'.results, 1, Len(ticks[i].results)) = ticks[i].results
              /\ db'.fetchSchedule = lastTick'.schedule
              /\ lastTick'.schedule.fetchCount = fetchCount'
        /\ ~TickEnds => lastTick' = NoTick ]_vars

\* a tick over two entities, replaced by nobody while it ran: the first
\* fetch raised, the second returned nothing, and the tick ended
C12_Witness ==
    /\ lastTick.n = 1
    /\ Len(lastTick.pols) = 2
    /\ schedPoliticians = <<>>
    /\ lastTick.results = <<FetchResult(FALSE, "", "error.message"),
                            FetchResult(FALSE, "", "No event found")>>
    /\ db.fetchSchedule = lastTick.schedule
    /\ fetchCount = SavedMirror.fetchSchedule.fetchCount + 1

\* a step in which runHourlyFetch() is called: by start(), setFetchInterval(),
\* a timer callback or fetchNow()
TickBegins == started' = started + 1

\* C26: at most one tick is executing at any time: a tick triggered by the
\* timer, by start(), by setFetchInterval() or by fetchNow() never begins
\* while a previous tick is still in progress, so the scheduler never has two
\* provider calls outstanding.
C26_OneTickAtATime ==
    /\ [][ TickBegins => ticks = <<>> ]_vars
    /\ [](Len(ticks) <= 1)

\* the step in which start() runs on a stopped scheduler
StartsFromStopped == ~isRunning /\ isRunning'

\* C27: start() called on a stopped scheduler moves it to running and begins
\* exactly one tick in the same step, at the current time and not one period
\* later, and that tick begins before the recurring timer is armed: no timer
\* handle is set yet when runHourlyFetch() is called.
C27_TickBeforeTimer ==
    [][ StartsFromStopped =>
           /\ started' = started + 1
           /\ lastTrigger' = "start"
           /\ \/ Len(ticks') = Len(ticks) + 1 /\ ticks'[Len(ticks')].began = now
              \/ TickEnds /\ lastTick'.schedule.lastFetchTime = now
           /\ schedulerInterval' # NoTimer
           /\ timerAtBegin' = NoTimer ]_vars

\* C28: within one tick no entity's fetch is followed by the next entity's
\* fetch in one step: after a success, after an empty result and after a
\* failure that raised, the tick first waits in the 2000 ms pause.
C28_DelayBetweenEntities ==
    [][ \A i \in 1..Len(ticks) :
           (ticks[i].pc = "fetch" /\ Len(ticks') >= Len(ticks))
              => ticks'[i].idx = ticks[i].idx ]_vars

-----------------------------------------------------------------------------
\* the application mounted over a loaded store
Mounted ==
    /\ RetryInit
    /\ ProviderInit
    /\ StoreReady
    /\ SchedulerInit
    /\ HistoryInit
    /\ EventInit
    /\ AppInit
    /\ DiscoveryInit
    /\ MetricsInit

Init ==
    /\ RetryInit
    /\ ProviderInit
    /\ StoreInit
    /\ SchedulerInit
    /\ HistoryInit
    /\ EventInit
    /\ AppInit
    /\ DiscoveryInit
    /\ MetricsInit

ReadyStart ==
    /\ RetryInit
    /\ ProviderInit
    /\ ReadyInit
    /\ SchedulerInit
    /\ HistoryInit
    /\ EventInit
    /\ AppInit
    /\ DiscoveryInit
    /\ MetricsInit

StoreApiStart ==
    /\ RetryInit
    /\ ProviderInit
    /\ StoreApiInit
    /\ SchedulerInit
    /\ HistoryInit
    /\ EventInit
    /\ AppInit
    /\ DiscoveryInit
    /\ MetricsInit

RetrySpec == Init /\ [][RetryNext]_vars

ProviderSpec == Init /\ [][ProviderNext]_vars

StoreSpec == Init /\ [][StoreNext]_vars

SchedulerSpec == SchedulerStart /\ [][SchedulerNext]_vars

HistorySpec == Mounted /\ [][HistoryNext]_vars

AppSpec == Mounted /\ [][AppNext]_vars

EventSpec == Mounted /\ [][EventNext]_vars

StoreApiSpec == StoreApiStart /\ [][StoreApiNext]_vars

RouteSpec == Mounted /\ [][RouteNext]_vars

ReadySpec == ReadyStart /\ [][StoreNext]_vars /\ WF_vars(InitIndexedDBStep)

DiscoverySpec == Mounted /\ [][DiscoveryNext]_vars

MetricsSpec == Mounted /\ [][MetricsNext]_vars

====
